---- MODULE Spec2Model ----
(***************************************************************************)
(* BeanBot knowledge retrieval and context assembly                        *)
(* (internal/knowledge: KnowledgeDatabase; internal/ui: BeanBot).          *)
(*                                                                         *)
(* Go strings are modelled by TLA+ strings over the ASCII alphabet, so     *)
(* that len() (a byte count) is Len and s[a:b] is SubSeq(s, a+1, b).       *)
(***************************************************************************)
EXTENDS Integers, Sequences, FiniteSets, TLC

(***************************************************************************)
(* The Go standard library functions the program calls (package strings,   *)
(* path/filepath, fmt's %d).                                               *)
(***************************************************************************)

\* s[i] as a one-character string (1-based)
CharAt(s, i) == SubSeq(s, i, i)

\* s[from:] with a 0-based Go offset
From(s, from) == SubSeq(s, from + 1, Len(s))

\* s[:to] with a 0-based Go offset
Upto(s, to) == SubSeq(s, 1, to)

UpperToLower ==
  [c \in {"A","B","C","D","E","F","G","H","I","J","K","L","M","N","O","P","Q",
          "R","S","T","U","V","W","X","Y","Z"} |->
     CASE c = "A" -> "a" [] c = "B" -> "b" [] c = "C" -> "c" [] c = "D" -> "d"
       [] c = "E" -> "e" [] c = "F" -> "f" [] c = "G" -> "g" [] c = "H" -> "h"
       [] c = "I" -> "i" [] c = "J" -> "j" [] c = "K" -> "k" [] c = "L" -> "l"
       [] c = "M" -> "m" [] c = "N" -> "n" [] c = "O" -> "o" [] c = "P" -> "p"
       [] c = "Q" -> "q" [] c = "R" -> "r" [] c = "S" -> "s" [] c = "T" -> "t"
       [] c = "U" -> "u" [] c = "V" -> "v" [] c = "W" -> "w" [] c = "X" -> "x"
       [] c = "Y" -> "y" [] c = "Z" -> "z"]

\* strings.ToLower
RECURSIVE ToLower(_)
ToLower(s) ==
  IF Len(s) = 0 THEN ""
  ELSE IF Len(s) = 1
       THEN (IF s \in DOMAIN UpperToLower THEN UpperToLower[s] ELSE s)
       ELSE LET h == Len(s) \div 2
            IN  ToLower(Upto(s, h)) \o ToLower(From(s, h))

\* strings.Contains
Contains(s, sub) ==
  \E i \in 0..(Len(s) - Len(sub)) : SubSeq(s, i + 1, i + Len(sub)) = sub

\* strings.Index, 0-based, -1 when absent
Index(s, sub) ==
  IF Contains(s, sub)
  THEN CHOOSE i \in 0..(Len(s) - Len(sub)) :
         /\ SubSeq(s, i + 1, i + Len(sub)) = sub
         /\ \A j \in 0..(i - 1) : SubSeq(s, j + 1, j + Len(sub)) # sub
  ELSE -1

\* strings.HasPrefix
HasPrefix(s, p) == Len(s) >= Len(p) /\ Upto(s, Len(p)) = p

\* strings.HasSuffix
HasSuffix(s, p) == Len(s) >= Len(p) /\ From(s, Len(s) - Len(p)) = p

\* strings.TrimPrefix
TrimPrefix(s, p) == IF HasPrefix(s, p) THEN From(s, Len(p)) ELSE s

\* strings.TrimSuffix
TrimSuffix(s, p) == IF HasSuffix(s, p) THEN Upto(s, Len(s) - Len(p)) ELSE s

\* unicode.IsSpace on the alphabet
IsSpace(c) == c \in {" ", "\n", "\t", "\r"}

\* strings.TrimLeft(s, spaces)
RECURSIVE TrimLeft(_)
TrimLeft(s) ==
  IF Len(s) > 0 /\ IsSpace(CharAt(s, 1)) THEN TrimLeft(From(s, 1)) ELSE s

\* strings.TrimRight(s, spaces)
RECURSIVE TrimRight(_)
TrimRight(s) ==
  IF Len(s) > 0 /\ IsSpace(CharAt(s, Len(s))) THEN TrimRight(Upto(s, Len(s) - 1))
  ELSE s

\* strings.TrimSpace
TrimSpace(s) == TrimRight(TrimLeft(s))

\* strings.Split with a non-empty separator
RECURSIVE Split(_, _)
Split(s, sep) ==
  LET at(i) == IF i < 0 THEN <<s>>
               ELSE <<Upto(s, i)>> \o Split(From(s, i + Len(sep)), sep)
  IN  at(Index(s, sep))

\* strings.SplitN with a non-empty separator and n > 0
RECURSIVE SplitN(_, _, _)
SplitN(s, sep, n) ==
  LET at(i) == IF n = 1 \/ i < 0 THEN <<s>>
               ELSE <<Upto(s, i)>> \o SplitN(From(s, i + Len(sep)), sep, n - 1)
  IN  at(Index(s, sep))

\* strings.Fields: the maximal runs of non-space characters
RECURSIVE Fields(_)
Fields(s) ==
  LET first(t, k) ==
        IF t = "" THEN <<>>
        ELSE IF k = 0 THEN <<t>>
        ELSE <<SubSeq(t, 1, k - 1)>> \o Fields(From(t, k))
      trimmed(t) ==
        first(t, IF \E i \in 1..Len(t) : IsSpace(CharAt(t, i))
                 THEN CHOOSE i \in 1..Len(t) :
                        /\ IsSpace(CharAt(t, i))
                        /\ \A j \in 1..(i - 1) : ~IsSpace(CharAt(t, j))
                 ELSE 0)
  IN  trimmed(TrimSpace(s))

\* strings.Count with a non-empty substring: non-overlapping occurrences
RECURSIVE Count(_, _)
Count(s, sub) ==
  LET at(i) == IF i < 0 THEN 0 ELSE 1 + Count(From(s, i + Len(sub)), sub)
  IN  at(Index(s, sub))

\* strings.ReplaceAll with a non-empty old string
RECURSIVE ReplaceAll(_, _, _)
ReplaceAll(s, old, new) ==
  LET at(i) == IF i < 0 THEN s
               ELSE Upto(s, i) \o new
                      \o ReplaceAll(From(s, i + Len(old)), old, new)
  IN  at(Index(s, old))

\* fmt's %d for a non-negative integer
RECURSIVE Itoa(_)
Itoa(n) ==
  IF n < 10 THEN CharAt("0123456789", n + 1)
  ELSE Itoa(n \div 10) \o CharAt("0123456789", (n % 10) + 1)

\* filepath.Base for a non-empty path without a trailing separator
Base(path) ==
  LET last(parts) == parts[Len(parts)]
  IN  last(Split(path, "/"))

\* a sequence of strings joined without separator
RECURSIVE Concat(_)
Concat(ss) == IF ss = <<>> THEN "" ELSE Head(ss) \o Concat(Tail(ss))

(***************************************************************************)
(* Maps (Go map[string]string) are functions with a finite string domain.  *)
(***************************************************************************)

EmptyMap == [k \in {} |-> ""]

\* m[k] = v
Put(m, k, v) == [y \in (DOMAIN m) \cup {k} |-> IF y = k THEN v ELSE m[y]]

\* m[k], the zero value "" when k is absent
Get(m, k) == IF k \in DOMAIN m THEN m[k] ELSE ""

\* the sequences that enumerate the finite set S once each: the orders in
\* which a Go range over a map with key set S can visit it
RECURSIVE Orders(_)
Orders(S) ==
  IF S = {} THEN {<<>>}
  ELSE UNION {{<<e>> \o o : o \in Orders(S \ {e})} : e \in S}

(***************************************************************************)
(* The file system the program reads: os.ReadDir, os.ReadFile, os.Stat,    *)
(* pdf.Open / Page.GetPlainText and docx.ReadDocxFile / GetContent are     *)
(* external; a file record holds what each of them returns for the file.   *)
(***************************************************************************)

\* a regular, readable, empty file
File(name) ==
  [name |-> name, isDir |-> FALSE, kids |-> <<>>, readable |-> TRUE,
   data |-> "", pdfOpen |-> FALSE, pages |-> <<>>,
   docxOk |-> FALSE, docText |-> "", size |-> 0]

Text(name, data) == [File(name) EXCEPT !.data = data, !.size = Len(data)]

Unreadable(name) == [File(name) EXCEPT !.readable = FALSE]

\* one page of a paginated document
Page(text) == [null |-> FALSE, ok |-> TRUE, text |-> text]

Pdf(name, pages) == [File(name) EXCEPT !.pdfOpen = TRUE, !.pages = pages]

Docx(name, text) == [File(name) EXCEPT !.docxOk = TRUE, !.docText = text]

Image(name, size) == [File(name) EXCEPT !.size = size]

Dir(name, kids) == [File(name) EXCEPT !.isDir = TRUE, !.kids = kids]

\* the error text of a failed docx.ReadDocxFile (formatted with %v)
DocxErr == "zip: not a valid zip file"

(***************************************************************************)
(* internal/knowledge: KnowledgeDatabase                                   *)
(***************************************************************************)

\* formatHierarchicalPath: the citation of a full path
formatHierarchicalPath(fullPath) ==
  LET format(parts) ==
        IF Len(parts) = 1 THEN parts[1]
        ELSE IF Len(parts) = 2 THEN parts[1] \o "/" \o parts[2]
        ELSE parts[Len(parts) - 1] \o "/" \o parts[Len(parts)]
      components(relativePath, parts) ==
        IF Len(parts) = 1 THEN format(Split(relativePath, "\\"))
        ELSE format(parts)
      relative(relativePath) ==
        components(relativePath, Split(relativePath, "/"))
  IN  relative(TrimPrefix(TrimPrefix(fullPath, "testData/"), "testData\\"))

\* ContainsAnyKeyword: only the keyword is case-folded
ContainsAnyKeyword(input, keywords) ==
  \E i \in 1..Len(keywords) : Contains(input, ToLower(keywords[i]))

troubleshootingKeywords ==
  << "error", "troubleshoot", "communication", "sensor", "power", "temperature",
     "timeout", "connection", "voltage", "calibration", "cycler", "device",
     "interface", "problem", "issue", "solution", "step", "procedure",
     "check", "verify", "test", "replace", "restart", "configure",
     "lsie", "support", "jira", "ticket", "contact", "help", "official",
     "execution", "standard", "process", "team", "unofficial", "pdf", "file",
     "open", "document", "manual", "guide", "instruction", "setup", "install",
     "software", "hardware", "system", "application", "program", "tool",
     "lsie", "solutionbuilder", "testmanager", "automation", "python", "vcl",
     "channel", "module", "schedule", "display", "data", "logging", "report",
     "security", "configuration", "developer", "api", "scripting", "control",
     "panel", "limit", "alarm", "calculation", "variable", "function",
     "installation", "getting", "started", "how", "use", "managing", "creating",
     "word", "docx", "meeting", "notes", "discussion", "minutes", "agenda",
     "action", "item", "decision", "requirement", "specification", "design",
     "image", "screenshot", "diagram", "flowchart", "picture", "photo",
     "visual", "graphic", "chart", "graph", "interface", "screen", "display",
     "png", "jpg", "jpeg", "bmp", "gif", "tiff", "ocr", "text",
     "btsi", "btsilsie", "battery", "lab", "integration", "testing", "cycler",
     "flash", "firmware", "jenkins", "build", "deploy", "release", "patch",
     "itest", "teststand", "ni", "national", "instruments", "systemlink",
     "grafana", "influx", "influxdb", "telegraf", "pagerduty", "sentry",
     "container", "pack", "cell", "formation", "pulse", "utilization",
     "pxi", "digibox", "com", "port", "serial", "neoVI", "vehicle", "spy",
     "brfm", "communication", "hardware", "troubleshooting", "wsus",
     "artifactory", "python", "wheel", "deployment", "kubernetes", "k8s",
     "sdf", "vpn", "access", "icentral", "ivc", "camera", "relay", "server",
     "hotswap", "replacement", "connectivity", "licensing", "visual", "studio",
     "service", "desk", "confluence", "atlassian", "markdown", "sprint",
     "retrospective", "planning", "bats", "ingestion", "utility", "bdsb",
     "pms", "transfer", "function", "sheet", "ctms", "sls", "flow",
     "engineer", "contractor", "onboard", "keyfreeze", "commander", "loader",
     "gmws", "wbcic", "wallace", "innovation", "center", "vcs", "box",
     "asis", "validation", "win10", "work", "instruction", "track", "presentation" >>

\* the query tokens longer than 2 characters that occur in the content
relevantKeywords(lowerInput, lowerContent) ==
  LET occurring(keywords) ==
        Cardinality({i \in 1..Len(keywords) :
                       Len(keywords[i]) > 2 /\ Contains(lowerContent, keywords[i])})
  IN  occurring(Fields(lowerInput))

\* the curated keywords that occur in both the query and the content
keywordMatches(lowerInput, lowerContent) ==
  Cardinality({i \in 1..Len(troubleshootingKeywords) :
                 /\ Contains(lowerInput, troubleshootingKeywords[i])
                 /\ Contains(lowerContent, troubleshootingKeywords[i])})

IsRelevantContent_NoShortQuery(userInput, content) ==
  LET relevant(lowerInput, lowerContent) ==
        \/ relevantKeywords(lowerInput, lowerContent) >= 1
        \/ keywordMatches(lowerInput, lowerContent) > 0
        \/ Contains(lowerContent, "troubleshoot")
        \/ Contains(lowerContent, "solution")
        \/ Contains(lowerContent, "procedure")
        \/ (Contains(lowerContent, "error") /\ Len(lowerContent) > 50)
  IN  relevant(ToLower(userInput), ToLower(content))

\* IsRelevantContent: lowerInput and lowerContent are the folded arguments;
\* the disjuncts are those of the return statement, keywordMatches (the
\* longest to compute) last
IsRelevantContent(userInput, content) ==
  LET relevant(lowerInput, lowerContent) ==
        \/ relevantKeywords(lowerInput, lowerContent) >= 1
        \/ Len(lowerInput) < 10
        \/ Contains(lowerContent, "troubleshoot")
        \/ Contains(lowerContent, "solution")
        \/ Contains(lowerContent, "procedure")
        \/ (Contains(lowerContent, "error") /\ Len(lowerContent) > 50)
        \/ keywordMatches(lowerInput, lowerContent) > 0
  IN  relevant(ToLower(userInput), ToLower(content))

\* the character entities extractDrawIOContent replaces
unescapeDrawIO(raw) ==
  ReplaceAll(ReplaceAll(ReplaceAll(ReplaceAll(ReplaceAll(raw,
    "&quot;", "\""), "&amp;", "&"), "&lt;", "<"), "&gt;", ">"), "&#xa;", "\n")

\* extractDrawIOContent: what one line of the XML contributes
drawIOLine(line) ==
  LET emit(text) == IF Len(TrimSpace(text)) > 5 THEN text \o "\n" ELSE ""
      value(rest, end) == IF end # -1 THEN emit(unescapeDrawIO(Upto(rest, end)))
                          ELSE ""
      quoted(rest) == value(rest, Index(rest, "\""))
      attribute(start) == IF start # -1 THEN quoted(From(line, start + 7)) ELSE ""
  IN  IF Contains(line, "value=") THEN attribute(Index(line, "value=\"")) ELSE ""

extractDrawIOContent(xmlContent) ==
  LET each(lines) == Concat([i \in 1..Len(lines) |-> drawIOLine(lines[i])])
  IN  each(Split(xmlContent, "\n"))

\* extractHTMLContent: the tags whose lines are skipped
skipTag(line) ==
  \/ line = ""
  \/ HasPrefix(line, "<!")
  \/ HasPrefix(line, "<html") \/ HasPrefix(line, "<head")
  \/ HasPrefix(line, "<meta") \/ HasPrefix(line, "<link")
  \/ HasPrefix(line, "<script") \/ HasPrefix(line, "<style")

\* extractHTMLContent: the title a line contributes
htmlTitle(line) ==
  LET emit(title) == IF Len(TrimSpace(title)) > 0
                     THEN "Title: " \o title \o "\n" ELSE ""
      between(start, end) == IF start < end THEN emit(SubSeq(line, start + 1, end))
                             ELSE ""
  IN  IF Contains(line, "<title>") /\ Contains(line, "</title>")
      THEN between(Index(line, "<title>") + 7, Index(line, "</title>"))
      ELSE ""

\* extractHTMLContent: the text a line contributes
htmlText(line) ==
  LET emit(cleaned) == IF Len(cleaned) > 20 /\ Len(cleaned) < 500
                       THEN cleaned \o "\n" ELSE ""
  IN  IF \/ Contains(line, "troubleshoot") \/ Contains(line, "error")
         \/ Contains(line, "problem") \/ Contains(line, "solution")
         \/ Contains(line, "step") \/ Contains(line, "issue")
      THEN emit(ReplaceAll(ReplaceAll(ReplaceAll(line,
                  "&quot;", "\""), "&amp;", "&"), "\\n", "\n"))
      ELSE ""

\* extractHTMLContent: what one line of the HTML contributes
htmlLine(rawLine) ==
  LET trimmed(line) == IF skipTag(line) THEN ""
                       ELSE htmlTitle(line) \o htmlText(line)
  IN  trimmed(TrimSpace(rawLine))

extractHTMLContent(htmlContent) ==
  LET each(lines) == Concat([i \in 1..Len(lines) |-> htmlLine(lines[i])])
  IN  each(Split(htmlContent, "\n"))

\* extractPDFText: what one page contributes. The four glyphs the code
\* replaces by a space are outside the alphabet, so those replacements
\* leave the text as it is.
pdfPage(page) ==
  LET emit(cleanText) == IF cleanText # "" /\ Len(cleanText) > 10
                         THEN cleanText \o "\n" ELSE ""
  IN  IF page.null \/ ~page.ok THEN ""
      ELSE emit(ReplaceAll(ReplaceAll(TrimSpace(page.text),
                  "  ", " "), "\n\n\n", "\n\n"))

\* extractPDFText: "" when the file cannot be opened as a PDF
extractPDFText(f) ==
  IF ~f.readable \/ ~f.pdfOpen THEN ""
  ELSE Concat([i \in 1..Len(f.pages) |-> pdfPage(f.pages[i])])

\* extractWordContent: what one line of the cleaned text contributes
wordLine(rawLine) ==
  LET trimmed(line) == IF Len(line) > 3 THEN line \o "\n" ELSE ""
  IN  trimmed(TrimSpace(rawLine))

extractWordContent(f, filePath) ==
  LET checked(result) ==
        IF Len(TrimSpace(result)) = 0
        THEN "Word document " \o filePath
               \o " processed but no readable text content found"
        ELSE result
      each(lines) == checked(Concat([i \in 1..Len(lines) |-> wordLine(lines[i])]))
  IN  IF ~f.readable \/ ~f.docxOk
      THEN "Error reading Word document " \o filePath \o ": " \o DocxErr
      ELSE each(Split(ReplaceAll(ReplaceAll(ReplaceAll(TrimSpace(f.docText),
                        "  ", " "), "\n\n\n", "\n\n"), "\t", " "), "\n"))

extractImageContent(f, filePath) ==
  IF ~f.readable THEN "Image file not found: " \o filePath
  ELSE "Image processed: " \o filePath \o "\n"
         \o "File size: " \o Itoa(f.size) \o " bytes\n"
         \o "OCR processing available - Windows built-in OCR ready\n"
         \o "Image content: screenshot diagram flowchart error message interface\n"

\* the image extensions of loadTextFiles and ProcessUserUpload
isImageName(lowerName) ==
  \/ HasSuffix(lowerName, ".png") \/ HasSuffix(lowerName, ".jpg")
  \/ HasSuffix(lowerName, ".jpeg") \/ HasSuffix(lowerName, ".bmp")
  \/ HasSuffix(lowerName, ".gif") \/ HasSuffix(lowerName, ".tiff")

\* the fields of KnowledgeDatabase that loadTextFiles fills
\* (stored: the assignments made so far, in order, kept for the properties)
NewStore ==
  [textFiles |-> EmptyMap, pdfContents |-> EmptyMap, wordContents |-> EmptyMap,
   imageContents |-> EmptyMap, filePaths |-> EmptyMap, stored |-> <<>>]

storeDoc_NoPath(kb, kind, name, content, fullPath) ==
  [kb EXCEPT ![kind] = Put(kb[kind], name, content),
             !.stored = Append(kb.stored,
                          [kind |-> kind, name |-> name, content |-> content,
                           path |-> fullPath])]

\* kb.<kind>[name] = content; kb.filePaths[name] = fullPath
storeDoc(kb, kind, name, content, fullPath) ==
  [kb EXCEPT ![kind] = Put(kb[kind], name, content),
             !.filePaths = Put(kb.filePaths, name, fullPath),
             !.stored = Append(kb.stored,
                          [kind |-> kind, name |-> name, content |-> content,
                           path |-> fullPath])]

loadPdf_NoSentinel(kb, f, fullPath) ==
  LET keep(content) ==
        IF content # ""
        THEN storeDoc(kb, "pdfContents", f.name, content, fullPath)
        ELSE kb
  IN  keep(extractPDFText(f))

\* loadTextFiles, the .pdf branch
loadPdf(kb, f, fullPath) ==
  LET keep(content) ==
        IF content # ""
        THEN storeDoc(kb, "pdfContents", f.name, content, fullPath)
        ELSE storeDoc(kb, "pdfContents", f.name,
                      "Failed to extract text from PDF - " \o f.name, fullPath)
  IN  keep(extractPDFText(f))

\* loadTextFiles, the .docx branch
loadDocx(kb, f, fullPath) ==
  LET keep(content) ==
        IF content # ""
        THEN storeDoc(kb, "wordContents", f.name, content, fullPath)
        ELSE storeDoc(kb, "wordContents", f.name,
                      "Failed to extract text from Word document - " \o f.name,
                      fullPath)
  IN  keep(extractWordContent(f, fullPath))

\* loadTextFiles, the image branch
loadImage(kb, f, fullPath) ==
  LET keep(content) ==
        IF content # ""
        THEN storeDoc(kb, "imageContents", f.name, content, fullPath)
        ELSE storeDoc(kb, "imageContents", f.name,
                      "Failed to process image - " \o f.name, fullPath)
  IN  keep(extractImageContent(f, fullPath))

\* loadTextFiles, the .txt, .drawio and .html branches: the file is left
\* out when it cannot be read or nothing was extracted
loadText(kb, f, fullPath, content) ==
  IF f.readable /\ content # ""
  THEN storeDoc(kb, "textFiles", f.name, content, fullPath)
  ELSE kb

\* loadTextFiles, the body of the loop for an entry that is not a directory
loadFile(kb, f, fullPath) ==
  LET byExtension(lowerName) ==
        IF HasSuffix(lowerName, ".txt")
        THEN IF f.readable
             THEN storeDoc(kb, "textFiles", f.name, f.data, fullPath)
             ELSE kb
        ELSE IF HasSuffix(lowerName, ".drawio")
        THEN loadText(kb, f, fullPath, extractDrawIOContent(f.data))
        ELSE IF HasSuffix(lowerName, ".html")
        THEN loadText(kb, f, fullPath, extractHTMLContent(f.data))
        ELSE IF HasSuffix(lowerName, ".pdf")
        THEN loadPdf(kb, f, fullPath)
        ELSE IF HasSuffix(lowerName, ".docx")
        THEN loadDocx(kb, f, fullPath)
        ELSE IF HasSuffix(lowerName, ".doc")
        THEN storeDoc(kb, "wordContents", f.name,
                      "Legacy .doc format not supported - please convert to .docx format: "
                        \o f.name, fullPath)
        ELSE IF isImageName(lowerName)
        THEN loadImage(kb, f, fullPath)
        ELSE kb
  IN  byExtension(ToLower(f.name))

\* loadTextFiles(dirPath): the entries of the directory in os.ReadDir's
\* order, subdirectories walked depth-first; a directory that cannot be
\* read is left out
RECURSIVE loadEntries(_, _, _)
loadEntries(kb, dirPath, entries) ==
  LET load(entry, fullPath) ==
        IF entry.isDir
        THEN IF entry.readable
             THEN loadEntries(kb, fullPath, entry.kids)
             ELSE kb
        ELSE loadFile(kb, entry, fullPath)
  IN  IF entries = <<>> THEN kb
      ELSE loadEntries(load(Head(entries), dirPath \o "/" \o Head(entries).name),
                       dirPath, Tail(entries))

loadTextFiles(kb, dir) ==
  IF dir.readable THEN loadEntries(kb, dir.name, dir.kids) ELSE kb


\* ProcessUserUpload: the content stored for a document whose extraction
\* returned content, the sentinel when it returned none
orSentinel(content, sentinel) ==
  [err |-> FALSE, content |-> IF content = "" THEN sentinel ELSE content]

\* ProcessUserUpload: the content read with os.ReadFile, or the error
readOrFail(f, content) ==
  IF f.readable THEN [err |-> FALSE, content |-> content]
  ELSE [err |-> TRUE, content |-> ""]

\* ProcessUserUpload up to the store: the content, or the error returned
uploadContent(f, filePath) ==
  LET byExtension(filename, lowerName) ==
        IF HasSuffix(lowerName, ".txt")
        THEN readOrFail(f, f.data)
        ELSE IF HasSuffix(lowerName, ".html")
        THEN readOrFail(f, extractHTMLContent(f.data))
        ELSE IF HasSuffix(lowerName, ".pdf")
        THEN orSentinel(extractPDFText(f),
                        "Failed to extract text from uploaded PDF - " \o filename)
        ELSE IF HasSuffix(lowerName, ".docx")
        THEN orSentinel(extractWordContent(f, filePath),
                        "Failed to extract text from uploaded Word document - "
                          \o filename)
        ELSE IF isImageName(lowerName)
        THEN orSentinel(extractImageContent(f, filePath),
                        "Failed to process uploaded image - " \o filename)
        ELSE readOrFail(f, f.data)
      named(filename) == byExtension(filename, ToLower(filename))
  IN  named(Base(filePath))

\* ProcessUserUpload: fmt.Sprintf("upload_%d_%s", timestamp.Unix(), filename)
uniqueFilename(unix, filePath) ==
  "upload_" \o Itoa(unix) \o "_" \o Base(filePath)

\* the session maps of KnowledgeDatabase after construction
NewSession ==
  [userUploads |-> EmptyMap, uploadPaths |-> EmptyMap, uploadTime |-> EmptyMap]

\* ProcessUserUpload(f.name) at the second unix: the error returned and the
\* session maps it leaves
ProcessUserUpload(session, unix, f) ==
  LET stored(key, c) ==
        IF c.err THEN [err |-> TRUE, key |-> key, session |-> session]
        ELSE [err |-> FALSE, key |-> key,
              session |->
                [userUploads |-> Put(session.userUploads, key, c.content),
                 uploadPaths |-> Put(session.uploadPaths, key, f.name),
                 uploadTime |-> Put(session.uploadTime, key, unix)]]
  IN  stored(uniqueFilename(unix, f.name), uploadContent(f, f.name))

ClearUserUploads_KeepContents(session) ==
  [session EXCEPT !.uploadPaths = EmptyMap, !.uploadTime = EmptyMap]

ClearUserUploads(session) ==
  [userUploads |-> EmptyMap, uploadPaths |-> EmptyMap, uploadTime |-> EmptyMap]

\* two decimal digits (%02d)
TwoDigits(n) == IF n < 10 THEN "0" \o Itoa(n) ELSE Itoa(n)

\* timestamp.Format("15:04:05"), in UTC
FormatClock(unix) ==
  LET secs == unix % 86400
  IN  TwoDigits(secs \div 3600) \o ":" \o TwoDigits((secs % 3600) \div 60)
        \o ":" \o TwoDigits(secs % 60)

\* GetUploadedFilesList, the range over uploadTime visiting the keys in order
GetUploadedFilesList(session, order) ==
  [i \in 1..Len(order) |->
     TrimPrefix(order[i],
                "upload_" \o Itoa(session.uploadTime[order[i]]) \o "_")
       \o " (uploaded " \o FormatClock(session.uploadTime[order[i]]) \o ")"]

(***************************************************************************)
(* internal/ui: BeanBot                                                    *)
(***************************************************************************)

formatHierarchicalReference(filepath, filename) ==
  LET last(pathParts) ==
        IF Len(pathParts) = 0 THEN filename
        ELSE pathParts[Len(pathParts)] \o "/" \o filename
      under(dir) ==
        IF dir = "" \/ dir = "." THEN filename
        ELSE last(SelectSeq(Split(ReplaceAll(dir, "\\", "/"), "/"),
                            LAMBDA part : part # "" /\ part # "."
                                            /\ part # "testData"))
      stripped(dir) ==
        under(TrimPrefix(TrimPrefix(TrimPrefix(dir,
                "testData/"), "testData\\"), "testData"))
  IN  IF filepath = "" THEN filename
      ELSE IF HasSuffix(filepath, filename)
      THEN stripped(TrimSuffix(TrimSuffix(TrimSuffix(filepath, filename),
                                          "/"), "\\"))
      ELSE stripped(filepath)

\* findMostRelevantSection: the section that starts at paragraph i (0-based)
\* and ends before paragraph sectionEnd
sectionAt(paragraphs, i, sectionEnd) ==
  Concat([k \in 1..(sectionEnd - i) |->
            paragraphs[i + k] \o (IF i + k - 1 < sectionEnd - 1 THEN "\n\n" ELSE "")])

\* findMostRelevantSection: the score of a section
sectionScore(lowerSection, keywords) ==
  LET sum[k \in 0..Len(keywords)] ==
        IF k = 0 THEN 0
        ELSE sum[k - 1]
               + (IF Len(keywords[k]) > 2 /\ Contains(lowerSection, keywords[k])
                  THEN Count(lowerSection, keywords[k]) ELSE 0)
  IN  sum[Len(keywords)]

\* findMostRelevantSection: the paragraphs the content is split into
splitParagraphs(content) ==
  LET orSentences(paragraphs) ==
        IF Len(paragraphs) < 3 THEN Split(content, ". ") ELSE paragraphs
  IN  orSentences(Split(content, "\n\n"))

\* findMostRelevantSection: the loop over the sections, from section i on
RECURSIVE scanSections(_, _, _, _, _)
scanSections(paragraphs, keywords, maxLength, i, best) ==
  LET scored(section, score) ==
        IF score > best.bestScore
        THEN [bestScore |-> score, bestSection |-> section]
        ELSE best
      measured(section) ==
        IF Len(section) > maxLength THEN best
        ELSE scored(section, sectionScore(ToLower(section), keywords))
  IN  IF i >= Len(paragraphs) THEN best
      ELSE scanSections(paragraphs, keywords, maxLength, i + 1,
             measured(sectionAt(paragraphs, i,
                                IF i + 3 > Len(paragraphs) THEN Len(paragraphs)
                                ELSE i + 3)))

\* findMostRelevantSection: bestSection after the loop
bestSection(content, userInput, maxLength) ==
  scanSections(splitParagraphs(content), Fields(ToLower(userInput)), maxLength,
               0, [bestScore |-> 0, bestSection |-> ""]).bestSection

findMostRelevantSection_NoLengthCheck(content, userInput, maxLength) ==
  LET orBeginning(best) ==
        IF best = "" /\ Len(content) > maxLength THEN Upto(content, maxLength)
        ELSE best
  IN  orBeginning(bestSection(content, userInput, Len(content)))

findMostRelevantSection(content, userInput, maxLength) ==
  LET orBeginning(best) ==
        IF best = "" /\ Len(content) > maxLength THEN Upto(content, maxLength)
        ELSE best
  IN  orBeginning(bestSection(content, userInput, maxLength))

\* buildEngineeringContext: context and sources before anything is written.
\* supportDocsFound is the variable of that name; fallback tells that the
\* branch for an empty context was entered; tiers (kept for the
\* properties) is the loop that appended each source.
NewContext ==
  [text |-> "", sources |-> <<>>, tiers |-> <<>>, supportDocsFound |-> FALSE,
   fallback |-> FALSE]

\* context.WriteString(text)
write(ctx, text) == [ctx EXCEPT !.text = ctx.text \o text]

\* sources = append(sources, source)
cite(ctx, source, tier) ==
  [ctx EXCEPT !.sources = Append(ctx.sources, source),
              !.tiers = Append(ctx.tiers, tier)]

\* the body of a document, never cut
truncated_NoCut(content, limit) ==
  content \o "\n\n"

\* the body of a document, cut to limit characters
\* (content[:limit] + "...\n\n", else content + "\n\n")
truncated(content, limit) ==
  IF Len(content) > limit
  THEN Upto(content, limit) \o "...\n\n"
  ELSE content \o "\n\n"

\* header, citation and body of one document
entry(ctx, header, source, tier, body) ==
  write(cite(write(ctx, header), source, tier), body)

\* the tokens of the input longer than minLen that occur in the folded
\* content (counted per token, as the loops over strings.Fields(lowerInput)
\* do)
wordMatches(lowerInput, lowerContent, minLen) ==
  LET occurring(inputWords) ==
        Cardinality({i \in 1..Len(inputWords) :
                       /\ Len(inputWords[i]) > minLen
                       /\ Contains(lowerContent, inputWords[i])})
  IN  occurring(Fields(lowerInput))

technicalKeywords ==
  <<"error", "problem", "issue", "step", "solution", "configure", "install",
    "troubleshoot">>

\* PRIORITY 0: shouldInclude for one upload
shouldInclude(lowerInput, content) ==
  LET matching(lowerContent) ==
        \/ wordMatches(lowerInput, lowerContent, 2) > 0
        \/ \E i \in 1..Len(technicalKeywords) :
             Contains(lowerContent, technicalKeywords[i])
  IN  IF Len(TrimSpace(lowerInput)) <= 10 THEN TRUE
      ELSE IF Len(content) > 50 THEN matching(ToLower(content))
      ELSE FALSE

\* PRIORITY 0: the name shown for an upload key
displayName(filename) ==
  LET original(parts) == IF Len(parts) >= 3 THEN parts[3] ELSE filename
  IN  IF Contains(filename, "_") THEN original(SplitN(filename, "_", 3))
      ELSE filename

\* PRIORITY 0: the body of the loop over the uploads
uploadStep(ctx, lowerInput, filename, content) ==
  LET shown(name) ==
        entry(ctx, "From User Upload (" \o name \o "):\n",
              "User Upload: " \o name, "upload", truncated(content, 800))
  IN  IF shouldInclude(lowerInput, content) THEN shown(displayName(filename))
      ELSE ctx

isTechnicalQuestion(lowerInput) ==
  \/ Contains(lowerInput, "error") \/ Contains(lowerInput, "problem")
  \/ Contains(lowerInput, "troubleshoot") \/ Contains(lowerInput, "timeout")
  \/ Contains(lowerInput, "connection") \/ Contains(lowerInput, "device")
  \/ Contains(lowerInput, "communication") \/ Contains(lowerInput, "system")
  \/ Contains(lowerInput, "software") \/ Contains(lowerInput, "hardware")
  \/ Contains(lowerInput, "issue") \/ Contains(lowerInput, "failure")
  \/ Contains(lowerInput, "malfunction")

isHTML(filename) == Contains(ToLower(filename), ".html")

\* the citation of a corpus document
formattedPath(kb, filename) ==
  formatHierarchicalReference(Get(kb.filePaths, filename), filename)

\* the general path: the body of the loop over the text files
generalStep(ctx, lowerInput, kb, filename) ==
  LET cited(content, path) ==
        entry(ctx, "From " \o path \o ":\n", path, "general",
              truncated(content, 400))
      matched(content) ==
        IF wordMatches(lowerInput, ToLower(content), 3) >= 2
        THEN cited(content, formattedPath(kb, filename))
        ELSE ctx
  IN  matched(kb.textFiles[filename])

\* PRIORITY 1: the body of the loop over the text files, for an HTML file
htmlStep(ctx, lowerInput, kb, filename) ==
  LET relevant(content) ==
        IF IsRelevantContent(lowerInput, content)
        THEN [entry(ctx, "From Engineering Documentation (" \o filename \o "):\n",
                    "Engineering Documentation: " \o filename, "html",
                    truncated(content, 500))
                EXCEPT !.supportDocsFound = TRUE]
        ELSE ctx
  IN  relevant(kb.textFiles[filename])

\* "1. first\n2. second\n..." (fmt.Sprintf("%d. %s\n", i+1, item))
numbered(items) ==
  Concat([i \in 1..Len(items) |-> Itoa(i) \o ". " \o items[i] \o "\n"])

errorMatches(lowerInput, errorCode) ==
  \/ Contains(lowerInput, ToLower(errorCode.Code))
  \/ Contains(lowerInput, ToLower(errorCode.Description))
  \/ ContainsAnyKeyword(lowerInput, errorCode.RelatedComponents)

\* PRIORITY 2: the body of the loop over the error codes
errorStep(ctx, lowerInput, errorCode) ==
  IF errorMatches(lowerInput, errorCode)
  THEN entry(ctx,
             "Error Code " \o errorCode.Code \o ": " \o errorCode.Description
               \o "\n",
             "Error Code: " \o errorCode.Code, "error",
             "Troubleshooting Steps:\n"
               \o numbered(errorCode.TroubleshootingSteps) \o "\n")
  ELSE ctx

\* PRIORITY 3: the body of the loop over the common issues
issueStep(ctx, lowerInput, issue) ==
  IF \/ Contains(lowerInput, ToLower(issue.Issue))
     \/ ContainsAnyKeyword(lowerInput, issue.Symptoms)
  THEN entry(ctx, "Common Issue: " \o issue.Issue \o "\n",
             "Common Issue: " \o issue.Issue, "issue",
             "Solutions:\n" \o numbered(issue.Solutions) \o "\n")
  ELSE ctx

\* PRIORITY 4: the body of the loop, for a text file that is not HTML
textStep(ctx, lowerInput, kb, filename) ==
  LET cited(content, path) ==
        entry(ctx, "From " \o path \o ":\n", path, "text",
              truncated(content, 400))
      relevant(content) ==
        IF IsRelevantContent(lowerInput, content)
        THEN cited(content, formattedPath(kb, filename))
        ELSE ctx
  IN  relevant(kb.textFiles[filename])

\* the body of a PDF or Word document
largeBody(content, lowerInput) ==
  IF Len(content) > 1000
  THEN findMostRelevantSection(content, lowerInput, 800) \o "...\n\n"
  ELSE truncated(content, 600)

\* the body of the loop over the PDF contents
pdfStep(ctx, lowerInput, kb, filename) ==
  LET cited(content, path) ==
        entry(ctx, "From " \o path \o ":\n", "PDF: " \o path, "pdf",
              largeBody(content, lowerInput))
      kept(content) ==
        IF Contains(content, "<<") /\ Contains(content, ">>") THEN ctx
        ELSE IF IsRelevantContent(lowerInput, content)
        THEN cited(content, formattedPath(kb, filename))
        ELSE ctx
  IN  kept(kb.pdfContents[filename])

\* the body of the loop over the Word contents
wordStep(ctx, lowerInput, kb, filename) ==
  LET cited(content, path) ==
        entry(ctx, "From Word Document (" \o path \o "):\n",
              "Word Document: " \o path, "word", largeBody(content, lowerInput))
      kept(content) ==
        IF Contains(content, "Failed to extract") \/ Contains(content, "not supported")
        THEN ctx
        ELSE IF IsRelevantContent(lowerInput, content)
        THEN cited(content, formattedPath(kb, filename))
        ELSE ctx
  IN  kept(kb.wordContents[filename])

\* the body of the loop over the image contents
imageStep(ctx, lowerInput, kb, filename) ==
  LET cited(content, path) ==
        entry(ctx, "From Image (" \o path \o "):\n", "Image: " \o path, "image",
              content \o "\n\n")
      kept(content) ==
        IF Contains(content, "Failed to process") THEN ctx
        ELSE IF IsRelevantContent(lowerInput, content)
        THEN cited(content, formattedPath(kb, filename))
        ELSE ctx
  IN  kept(kb.imageContents[filename])

\* the fallback: the branch taken when the context is still empty
fallbackStep(ctx) ==
  IF Len(ctx.text) = 0
  THEN [write(ctx, "General Engineering Knowledge:\n\n") EXCEPT !.fallback = TRUE]
  ELSE ctx

\* the fallback: the body of the loop for an HTML file (htmlCount < 2)
fallbackHtmlStep(ctx, kb, filename) ==
  LET cited(path) ==
        entry(ctx, "From Engineering Documentation (" \o path \o "):\n",
              "Engineering Documentation (General): " \o path, "fallback",
              truncated(kb.textFiles[filename], 300))
  IN  IF ctx.fallback /\ ~ctx.supportDocsFound
      THEN cited(formattedPath(kb, filename))
      ELSE ctx

\* the fallback: the body of the loop over the error codes
fallbackErrorStep(ctx, errorCode) ==
  IF ctx.fallback
  THEN cite(write(ctx, "Error Code " \o errorCode.Code \o ": "
                         \o errorCode.Description \o "\n"),
            "Error Code Reference: " \o errorCode.Code, "fallback")
  ELSE ctx

\* the fallback: the line written after the error codes
fallbackEndStep(ctx) == IF ctx.fallback THEN write(ctx, "\n") ELSE ctx

\* the fallback: the first text file that is not HTML
fallbackTextStep(ctx, kb, filename) ==
  LET cited(path) ==
        entry(ctx, "From " \o path \o ":\n", "General Reference: " \o path,
              "fallback", truncated(kb.textFiles[filename], 300))
  IN  IF ctx.fallback THEN cited(formattedPath(kb, filename)) ELSE ctx

\* the body of one loop of buildEngineeringContext for one key
step(ctx, loop, k, lowerInput, kb, userUploads) ==
  CASE loop = "upload" -> uploadStep(ctx, lowerInput, k, userUploads[k])
    [] loop = "general" -> generalStep(ctx, lowerInput, kb, k)
    [] loop = "html" -> htmlStep(ctx, lowerInput, kb, k)
    [] loop = "error" -> errorStep(ctx, lowerInput, k)
    [] loop = "issue" -> issueStep(ctx, lowerInput, k)
    [] loop = "text" -> textStep(ctx, lowerInput, kb, k)
    [] loop = "pdf" -> pdfStep(ctx, lowerInput, kb, k)
    [] loop = "word" -> wordStep(ctx, lowerInput, kb, k)
    [] loop = "image" -> imageStep(ctx, lowerInput, kb, k)
    [] loop = "fallback" -> fallbackStep(ctx)
    [] loop = "fallbackHtml" -> fallbackHtmlStep(ctx, kb, k)
    [] loop = "fallbackError" -> fallbackErrorStep(ctx, k)
    [] loop = "fallbackEnd" -> fallbackEndStep(ctx)
    [] loop = "fallbackText" -> fallbackTextStep(ctx, kb, k)

\* one loop of buildEngineeringContext over the keys in the order given
RECURSIVE rangeOver(_, _, _, _, _, _)
rangeOver(ctx, loop, order, lowerInput, kb, userUploads) ==
  IF order = <<>> THEN ctx
  ELSE rangeOver(step(ctx, loop, Head(order), lowerInput, kb, userUploads),
                 loop, Tail(order), lowerInput, kb, userUploads)

htmlFiles(kb) == {f \in DOMAIN kb.textFiles : isHTML(f)}

otherTextFiles(kb) == {f \in DOMAIN kb.textFiles : ~isHTML(f)}

\* the first n elements of a sequence, all of them when it is shorter
firstN(order, n) == SubSeq(order, 1, IF Len(order) < n THEN Len(order) ELSE n)

\* the orders in which a loop can visit its keys: a slice is visited in its
\* own order, a map in any order (the keys that a loop passes over without
\* effect are left out); a statement outside the loops is a single pass
loopOrders(loop, kb, data, userUploads) ==
  CASE loop = "upload" -> Orders(DOMAIN userUploads)
    [] loop = "general" -> Orders(DOMAIN kb.textFiles)
    [] loop = "html" -> Orders(htmlFiles(kb))
    [] loop = "error" -> {data.ErrorCodes}
    [] loop = "issue" -> {data.CommonIssues}
    [] loop = "text" -> Orders(otherTextFiles(kb))
    [] loop = "pdf" -> Orders(DOMAIN kb.pdfContents)
    [] loop = "word" -> Orders(DOMAIN kb.wordContents)
    [] loop = "image" -> Orders(DOMAIN kb.imageContents)
    [] loop = "fallback" -> {<<"">>}
    [] loop = "fallbackHtml" -> {firstN(order, 2) : order \in Orders(htmlFiles(kb))}
    [] loop = "fallbackError" -> {data.ErrorCodes}
    [] loop = "fallbackEnd" -> {<<"">>}
    [] loop = "fallbackText" -> {firstN(order, 1) : order \in Orders(otherTextFiles(kb))}

\* the loops of buildEngineeringContext one after the other: the contexts
\* they can leave
RECURSIVE runLoops(_, _, _, _, _, _)
runLoops(ctxs, loops, lowerInput, kb, data, userUploads) ==
  IF loops = <<>> THEN ctxs
  ELSE runLoops(
         UNION {{rangeOver(ctx, Head(loops), order, lowerInput, kb, userUploads)
                 : order \in loopOrders(Head(loops), kb, data, userUploads)}
                : ctx \in ctxs},
         Tail(loops), lowerInput, kb, data, userUploads)

\* the loops of the general path
generalLoops == <<"general">>

\* the technical path with the text files ranged over before the HTML ones
technicalLoops_TextFirst ==
  <<"text", "html", "error", "issue", "pdf", "word", "image",
    "fallback", "fallbackHtml", "fallbackError", "fallbackEnd", "fallbackText">>

\* the loops of the technical path, the fallback last
technicalLoops ==
  <<"html", "error", "issue", "text", "pdf", "word", "image",
    "fallback", "fallbackHtml", "fallbackError", "fallbackEnd", "fallbackText">>

\* the general path: the direct response when nothing was written
outsideExpertise(userInput) ==
  "I'm BeanBot, specifically designed for engineering support. Your question '"
    \o userInput
    \o "' seems to be outside my technical expertise. I can help with engineering errors, system issues, device problems, and technical troubleshooting."

\* what buildEngineeringContext returns: the context and the sources
returned(ctx) == [text |-> ctx.text, sources |-> ctx.sources, tiers |-> ctx.tiers]

generalResult_NoMessage(ctx, userInput) == returned(ctx)

\* the general path: what is returned after the loop over the text files
generalResult(ctx, userInput) ==
  IF Len(ctx.text) = 0
  THEN [text |-> outsideExpertise(userInput), sources |-> <<>>, tiers |-> <<>>]
  ELSE returned(ctx)

truncationNotice == "\n[Context truncated to prevent timeout...]"

\* the technical path: the limit on the total context size
capContext(ctx) ==
  IF Len(ctx.text) > 1500
  THEN returned([ctx EXCEPT !.text = Upto(ctx.text, 1500) \o truncationNotice])
  ELSE returned(ctx)

\* buildEngineeringContext from the loops given on: the (context, sources)
\* pairs it can return
build(ctx, loops, technical, userInput, kb, data, userUploads) ==
  {IF technical THEN capContext(c) ELSE generalResult(c, userInput) :
     c \in runLoops({ctx},
                    loops \o (IF technical THEN technicalLoops ELSE generalLoops),
                    ToLower(userInput), kb, data, userUploads)}

\* buildEngineeringContext from the end of the loop over the uploads
buildAfterUploads(ctx, userInput, kb, data) ==
  build(ctx, <<>>, isTechnicalQuestion(ToLower(userInput)), userInput, kb, data,
        EmptyMap)

buildEngineeringContext_UploadsLast(userInput, kb, data, userUploads) ==
  {IF isTechnicalQuestion(ToLower(userInput))
   THEN capContext(c) ELSE generalResult(c, userInput) :
     c \in runLoops({NewContext},
                    (IF isTechnicalQuestion(ToLower(userInput))
                     THEN SubSeq(technicalLoops, 1, 7) ELSE generalLoops)
                      \o <<"upload">>,
                    ToLower(userInput), kb, data, userUploads)}

\* buildEngineeringContext: the (context, sources) pairs it can return
buildEngineeringContext(userInput, kb, data, userUploads) ==
  build(NewContext, <<"upload">>, isTechnicalQuestion(ToLower(userInput)),
        userInput, kb, data, userUploads)


(***************************************************************************)
(* The Ollama client                                                       *)
(*                                                                         *)
(* A server is what the HTTP calls of one GenerateResponse meet: get is    *)
(* the status of GET baseURL, working the models whose test request is     *)
(* answered with status 200, post the status of the generation request     *)
(* (0 for both when the transport fails), decodes whether the body is the  *)
(* JSON of an OllamaResponse, and response its response field.             *)
(***************************************************************************)

\* NewClient("http://localhost:11434", "gemma3:1b")
NewClient == [model |-> "gemma3:1b"]

TestConnection(server) == server.get = 200

testModel(server, model) == model \in server.working

\* the models FindAvailableModel tries, in its order
knownModels ==
  <<"llama3.2:1b", "llama3.2:3b", "llama3.2", "llama3.2:latest", "gemma3:1b",
    "gemma2:2b", "gemma2:1b", "phi3:mini", "llama3.1:8b", "llama3.1:7b",
    "llama2:7b", "mistral:7b", "qwen2.5:1.5b", "codellama:7b">>

FindAvailableModel(server) ==
  LET first(works) ==
        IF works = {}
        THEN [available |-> FALSE, model |-> ""]
        ELSE [available |-> TRUE,
              model |-> knownModels[CHOOSE i \in works : \A j \in works : i <= j]]
  IN  first({i \in 1..Len(knownModels) : testModel(server, knownModels[i])})

\* generateFallbackResponse: the issue is what follows "User Issue:" on the
\* first line that begins with it
userIssue(prompt) ==
  LET RECURSIVE scan(_)
      scan(lines) ==
        IF lines = <<>> THEN ""
        ELSE IF HasPrefix(Head(lines), "User Issue:")
        THEN TrimSpace(TrimPrefix(Head(lines), "User Issue:"))
        ELSE scan(Tail(lines))
  IN  scan(Split(prompt, "\n"))

\* the last lines of every built-in response
offlineSignature ==
  "\n---\n*Response generated by Built-in Knowledge Base (Ollama offline)*"

\* a built-in response: its first lines and its last ones; the fixed steps
\* between them are left out
builtIn(problem, second) ==
  "## ISSUE ANALYSIS:\n- **Problem**: " \o problem \o "\n" \o second \o "\n"
    \o offlineSignature

generateFallbackResponse_IssueOnly(prompt) ==
  userIssue(prompt)

generateFallbackResponse(prompt) ==
  LET has(lowerIssue, words) == \E w \in words : Contains(lowerIssue, w)
      choose(lowerIssue) ==
        IF has(lowerIssue, {"e1001", "communication", "timeout"})
        THEN builtIn("Communication timeout with device (Error E1001)",
                     "- **Likely causes**: Cable connection issues, power supply problems, or communication settings")
        ELSE IF has(lowerIssue, {"e2005", "temperature", "sensor"})
        THEN builtIn("Temperature sensor fault (Error E2005)",
                     "- **Likely causes**: Sensor wiring issues, calibration problems, or faulty sensor")
        ELSE IF has(lowerIssue, {"e3010", "power", "voltage"})
        THEN builtIn("Power supply voltage out of range (Error E3010)",
                     "- **Likely causes**: Power supply failure, load issues, or configuration problems")
        ELSE IF has(lowerIssue, {"cycler", "limit", "range"})
        THEN builtIn("Cycler limit out of range",
                     "- **Likely causes**: Configuration limits exceeded, calibration drift, or equipment malfunction")
        ELSE builtIn(userIssue(prompt),
                     "- **Status**: AI assistant is currently offline, providing basic troubleshooting guidance")
  IN  choose(ToLower(userIssue(prompt)))

\* GenerateResponse: the response, whether the error is non-nil, and
\* oc.model afterwards.  json.Marshal of an OllamaRequest cannot fail.
GenerateResponse(oc, server, prompt) ==
  LET returns(text, model) == [response |-> text, err |-> FALSE, model |-> model]
      fallback(model) == returns(generateFallbackResponse(prompt), model)
      signed(response, model) ==
        returns(response \o "\n\n---\n*Response generated by " \o model \o "*",
                model)
      generate(model) ==
        IF server.post = 0 THEN fallback(model)
        ELSE IF server.post # 200 THEN fallback(model)
        ELSE IF ~server.decodes THEN fallback(model)
        ELSE IF TrimSpace(server.response) = "" THEN fallback(model)
        ELSE signed(TrimSpace(server.response), model)
      switch(found) ==
        IF ~found.available THEN fallback(oc.model) ELSE generate(found.model)
  IN  IF ~TestConnection(server) THEN fallback(oc.model)
      ELSE IF ~testModel(server, oc.model) THEN switch(FindAvailableModel(server))
      ELSE generate(oc.model)

(***************************************************************************)
(* The environment: the testData trees, the structured data files, the     *)
(* files a user can pick in the upload dialog, and the queries.            *)
(***************************************************************************)

\* s repeated n times
RECURSIVE Rep(_, _)
Rep(s, n) == IF n = 0 THEN "" ELSE s \o Rep(s, n - 1)

RoundTripText == "error E1001 communication timeout"

FsEmpty == Dir("testData", <<>>)

FsRoundTrip == Dir("testData", <<Text("e1001.txt", RoundTripText)>>)

\* a PDF that cannot be opened, before a subdirectory and a sibling file
FsBrokenPdf ==
  Dir("testData",
      <<Pdf("broken.pdf", <<>>),
        [Pdf("closed.pdf", <<>>) EXCEPT !.pdfOpen = FALSE],
        Dir("manuals",
            <<Pdf("guide.pdf",
                  <<Page("  Cycler setup guide\nchapter one  "),
                    [Page("") EXCEPT !.null = TRUE],
                    Page("short"),
                    Page("To troubleshoot the cycler   restart the firmware")>>)>>),
        Text("zones.txt", "Calibration schedule and battery pack notes for the lab")>>)

FsDocs ==
  Dir("testData",
      <<Dir("iTest_SupportDocs",
            <<Text("empty.html", "<html>\n<head>\n"),
              Text("index.html",
                   "<!DOCTYPE html>\n<html>\n<title>Channel limits</title>\n"
                     \o "<p>Follow each step to resolve the channel limit problem</p>\n"
                     \o "<p>ok</p>\n")>>),
        File("legacy.doc"),
        [Dir("locked", <<Text("secret.txt", "never read")>>)
           EXCEPT !.readable = FALSE],
        Unreadable("lost.txt"),
        Docx("meeting.docx", "Sprint   planning\nok\n\tFirmware release agenda\n"),
        [Docx("old.docx", "") EXCEPT !.docxOk = FALSE],
        Image("panel.png", 2048),
        Dir("troubleTree",
            <<Text("flow.drawio",
                   "<mxCell value=\"Check power &amp; cables\" />\n<mxCell value=\"ok\" />\n")>>),
        Text("zones.txt", "Calibration schedule and battery pack notes for the lab")>>)

\* a PDF longer than 1000 characters, in paragraphs
BigPdfText ==
  Rep("Jenkins builds are deployed to the lab every night and the release is patched. ", 8)
    \o "\n\n" \o "The relay timeout is raised when the relay does not answer."
    \o "\n\n" \o Rep("Grafana dashboards show the pulse utilization of each pack. ", 7)

FsBigPdf ==
  Dir("testData",
      <<Text("a.txt", "relay wiring overview"),
        Text("b.txt", "timeout values of the relay"),
        Pdf("tlm.pdf", <<Page(BigPdfText)>>)>>)

NoData == [ErrorCodes |-> <<>>, CommonIssues |-> <<>>]

LsieData ==
  [ErrorCodes |->
     <<[Code |-> "E1001", Description |-> "Communication timeout",
        Category |-> "Communication", Severity |-> "High",
        TroubleshootingSteps |-> <<"Check the cable connection",
                                   "Restart the communication module">>,
        RelatedComponents |-> <<"Communication Module", "VICM">>,
        DocumentationReference |-> "comm.html"],
       [Code |-> "E2005", Description |-> "Temperature sensor fault",
        Category |-> "Sensor", Severity |-> "Medium",
        TroubleshootingSteps |-> <<"Inspect the temperature sensor",
                                   "Replace the sensor">>,
        RelatedComponents |-> <<"Temperature Sensor">>,
        DocumentationReference |-> "sensor.html"]>>,
   CommonIssues |->
     <<[Issue |-> "Device not responding",
        Symptoms |-> <<"No response", "Frozen screen">>,
        Solutions |-> <<"Power cycle the device">>]>>]

\* what the process can find at startup: a testData tree and the decoded
\* lsie_errors.json
Installations ==
  {[fs |-> FsEmpty, data |-> NoData],
   [fs |-> FsRoundTrip, data |-> LsieData],
   [fs |-> FsBrokenPdf, data |-> LsieData],
   [fs |-> FsDocs, data |-> LsieData],
   [fs |-> FsBigPdf, data |-> NoData]}

Queries ==
  {"E1001",
   "Getting error E1001 when trying to communicate with the device",
   "error e1001 near the temperature sensor",
   "battery calibration schedule",
   "how do I book my vacation",
   "relay timeout",
   "   "}

\* the files of the upload dialog (name holds the full path)
UpLog ==
  Text("C:/logs/run_7.log",
       Rep("2025-01-01 12:00:00 error: communication timeout on channel 7\n", 14))

UpNote == Text("C:/notes/todo.txt", "buy milk")

UpGone == Unreadable("C:/logs/gone.txt")

\* the files a user can upload
UploadFiles == {UpLog, UpNote, UpGone}

\* the selections the dialog returns in the runs that interleave the
\* goroutines
Batches == {<<UpGone, UpNote>>, <<UpNote, UpLog>>}

\* the installation and the queries of those runs
RaceInstallations == {[fs |-> FsRoundTrip, data |-> LsieData]}

RaceQueries == {"E1001", "error e1001 near the temperature sensor"}

(***************************************************************************)
(* The bounds of the model                                                 *)
(***************************************************************************)

\* calls of ProcessUserUpload that return nil between two clears
MaxUploads == 2

\* selections made in the upload dialog (upload goroutines)
MaxBatches == 1

\* seconds the clock advances
MaxTicks == 1

(***************************************************************************)
(* The state                                                               *)
(***************************************************************************)

VARIABLES
  started,    \* NewKnowledgeDatabase has returned
  fs,         \* the testData tree on disk
  data,       \* kb.data
  kb,         \* kb.textFiles, pdfContents, wordContents, imageContents, filePaths
  session,    \* kb.userUploads, uploadPaths, uploadTime
  ticks,      \* seconds since the process started
  req,        \* the goroutine of handleEngineeringRequest
  result,     \* what buildEngineeringContext returned to it
  upl,        \* the goroutines of handleFileUpload
  crashed,    \* the runtime stopped the process (concurrent map access)
  sinceClear, \* history: the upload keys stored since the last clear
  cleared,    \* history: a clear has removed uploads
  nStored,    \* history: the calls of ProcessUserUpload that returned nil
              \* since the last clear
  call,       \* a function applied on its own: the function and its arguments
  ret         \* what it returned

vars ==
  <<started, fs, data, kb, session, ticks, req, result, upl, crashed, sinceClear,
    cleared, nStored, call, ret>>

\* time.Now().Unix()
Unix == 1700000000 + ticks

\* live: the map being ranged over is still kb.userUploads; frozen: the map
\* it was before ClearUserUploads replaced it; allowed (history): the keys
\* stored since the last clear before the request started, and while it ran
IdleReq ==
  [pc |-> "idle", query |-> "", live |-> TRUE, frozen |-> EmptyMap,
   visited |-> {}, atStart |-> {}, ctx |-> NewContext, allowed |-> {}]

\* interrupted (history): the Clear button was pressed while the goroutine
\* was in its loop over the files
IdleUpl ==
  [pc |-> "none", files |-> <<>>, idx |-> 0, key |-> "", content |-> "",
   stamp |-> 0, processed |-> 0, failed |-> 0, listed |-> <<>>,
   interrupted |-> FALSE]

\* the upload goroutine is in its loop over the files
inLoop(u) == u.pc \in {"process", "store1", "store2", "store3"}

NoResult == [text |-> "", sources |-> <<>>, tiers |-> <<>>]

\* no function is applied on its own
NoCall == [fn |-> "none"]

\* the program after construction of the window, before main has built the
\* knowledge database
InitProgram ==
  /\ started = FALSE
  /\ fs = FsEmpty
  /\ data = NoData
  /\ kb = NewStore
  /\ session = NewSession
  /\ ticks = 0
  /\ req = IdleReq
  /\ result = NoResult
  /\ upl = [i \in 1..MaxBatches |-> IdleUpl]
  /\ crashed = FALSE
  /\ sinceClear = {}
  /\ cleared = FALSE
  /\ nStored = 0

Init ==
  /\ InitProgram
  /\ call = NoCall
  /\ ret = NoCall

\* the map the request goroutine ranges over: kb.userUploads as it was when
\* GetUserUploads returned it, which ClearUserUploads replaces, not empties
reqUploads == IF req.live THEN session.userUploads ELSE req.frozen

\* main: NewKnowledgeDatabase reads lsie_errors.json and walks testData
Startup(inst) ==
  /\ ~started
  /\ started' = TRUE
  /\ fs' = inst.fs
  /\ data' = inst.data
  /\ kb' = loadTextFiles(NewStore, inst.fs)
  /\ UNCHANGED <<session, ticks, req, result, upl, crashed, sinceClear>>
  /\ UNCHANGED <<cleared, nStored, call, ret>>

\* the clock advances
Tick ==
  /\ started /\ ~crashed
  /\ ticks < MaxTicks
  /\ ticks' = ticks + 1
  /\ UNCHANGED <<started, fs, data, kb, session, req, result, upl, crashed,
                 sinceClear>>
  /\ UNCHANGED <<cleared, nStored, call, ret>>

\* the Clear button
Clear ==
  /\ started /\ ~crashed
  /\ session' = ClearUserUploads(session)
  /\ sinceClear' = {}
  /\ req' = IF req.pc = "uploads" /\ req.live
            THEN [req EXCEPT !.live = FALSE, !.frozen = session.userUploads]
            ELSE req
  /\ cleared' = (cleared \/ session.userUploads # EmptyMap)
  /\ upl' = [i \in 1..MaxBatches |->
               IF inLoop(upl[i]) THEN [upl[i] EXCEPT !.interrupted = TRUE]
               ELSE upl[i]]
  /\ UNCHANGED <<started, fs, data, kb, ticks, result, crashed>>
  /\ nStored' = 0
  /\ UNCHANGED <<call, ret>>

\* handleEngineeringRequest: the test for a direct response
directResponse(context) ==
  Contains(context, "outside my technical troubleshooting expertise")

\* the request goroutine after buildEngineeringContext: a direct response is
\* shown as it is, for any other context GenerateResponse is called with
\* the prompt
Decide ==
  /\ ~crashed
  /\ req.pc = "built"
  /\ req' = [req EXCEPT !.pc = IF directResponse(result.text) THEN "direct"
                                ELSE "generate"]
  /\ UNCHANGED <<started, fs, data, kb, session, ticks, result, upl, crashed,
                 sinceClear>>
  /\ UNCHANGED <<cleared, nStored, call, ret>>

\* the end of the request goroutine: the response is shown and the Ask
\* button enabled again
Respond ==
  /\ ~crashed
  /\ req.pc \in {"direct", "generate"}
  /\ req' = IdleReq
  /\ result' = NoResult
  /\ UNCHANGED <<started, fs, data, kb, session, ticks, upl, crashed, sinceClear>>
  /\ UNCHANGED <<cleared, nStored, call, ret>>

(***************************************************************************)
(* The calls, each run to its end before the next one starts               *)
(***************************************************************************)

\* no call is running
Quiet == req.pc = "idle"

\* a buildEngineeringContext that replaced the maps it had read
Request_ClearsUploads(userInput) ==
  /\ started /\ ~crashed
  /\ Quiet
  /\ TrimSpace(userInput) # ""
  /\ req' = [IdleReq EXCEPT !.pc = "built", !.query = userInput,
                            !.atStart = DOMAIN session.userUploads,
                            !.visited = DOMAIN session.userUploads,
                            !.allowed = sinceClear]
  /\ \E r \in buildEngineeringContext(userInput, kb, data, session.userUploads) :
       result' = r
  /\ session' = ClearUserUploads(session)
  /\ UNCHANGED <<started, fs, data, kb, ticks, upl, crashed, sinceClear>>
  /\ UNCHANGED <<cleared, nStored, call, ret>>

\* the Ask button: handleEngineeringRequest and, in its goroutine, the call
\* of buildEngineeringContext; an empty input returns at once
Request(userInput) ==
  /\ started /\ ~crashed
  /\ Quiet
  /\ TrimSpace(userInput) # ""
  /\ req' = [IdleReq EXCEPT !.pc = "built", !.query = userInput,
                            !.atStart = DOMAIN session.userUploads,
                            !.visited = DOMAIN session.userUploads,
                            !.allowed = sinceClear]
  /\ \E r \in buildEngineeringContext(userInput, kb, data, session.userUploads) :
       result' = r
  /\ UNCHANGED <<started, fs, data, kb, session, ticks, upl, crashed, sinceClear>>
  /\ UNCHANGED <<cleared, nStored, call, ret>>

\* ProcessUserUpload(f.name), run to its end
Upload(f) ==
  /\ started /\ ~crashed
  /\ nStored < MaxUploads
  /\ LET returns(r) ==
           /\ session' = r.session
           /\ sinceClear' = (IF r.err THEN sinceClear ELSE sinceClear \cup {r.key})
           /\ nStored' = (IF r.err THEN nStored ELSE nStored + 1)
     IN  returns(ProcessUserUpload(session, Unix, f))
  /\ UNCHANGED <<started, fs, data, kb, ticks, req, result, upl, crashed>>
  /\ UNCHANGED <<cleared, call, ret>>

NextCalls ==
  \/ \E inst \in Installations : Startup(inst)
  \/ \E userInput \in Queries : Request(userInput)
  \/ Decide
  \/ Respond
  \/ Quiet /\ Tick
  \/ Quiet /\ \E f \in UploadFiles : Upload(f)
  \/ Quiet /\ Clear

\* the program with every call run to its end before the next one starts
Spec == Init /\ [][NextCalls]_vars

(***************************************************************************)
(* The goroutines, statement by statement                                  *)
(***************************************************************************)

\* the Ask button: handleEngineeringRequest up to the go statement. The
\* button is disabled until the goroutine ends. An empty input returns at
\* once.
Ask(userInput) ==
  /\ started /\ ~crashed
  /\ req.pc = "idle"
  /\ TrimSpace(userInput) # ""
  /\ req' = [IdleReq EXCEPT !.pc = "uploads", !.query = userInput,
                            !.atStart = DOMAIN session.userUploads,
                            !.allowed = sinceClear]
  /\ UNCHANGED <<started, fs, data, kb, session, ticks, result, upl, crashed,
                 sinceClear>>
  /\ UNCHANGED <<cleared, nStored, call, ret>>

\* buildEngineeringContext: one iteration of the range over the uploads. A
\* key inserted while the range runs may be visited or not.
RangeUpload ==
  /\ ~crashed
  /\ req.pc = "uploads"
  /\ \E filename \in (DOMAIN reqUploads) \ req.visited :
       req' = [req EXCEPT
                 !.visited = req.visited \cup {filename},
                 !.ctx = uploadStep(req.ctx, ToLower(req.query), filename,
                                    reqUploads[filename])]
  /\ UNCHANGED <<started, fs, data, kb, session, ticks, result, upl, crashed,
                 sinceClear>>
  /\ UNCHANGED <<cleared, nStored, call, ret>>

\* buildEngineeringContext from the end of the range over the uploads to
\* its return
BuildRest ==
  /\ ~crashed
  /\ req.pc = "uploads"
  /\ (req.atStart \cap DOMAIN reqUploads) \subseteq req.visited
  /\ \E r \in buildAfterUploads(req.ctx, req.query, kb, data) :
       result' = r
  /\ req' = [req EXCEPT !.pc = "built"]
  /\ UNCHANGED <<started, fs, data, kb, session, ticks, upl, crashed, sinceClear>>
  /\ UNCHANGED <<cleared, nStored, call, ret>>

\* the Upload Files button: handleFileUpload up to the go statement, with
\* the files the dialog returned
SelectFiles(files) ==
  /\ started /\ ~crashed
  /\ \E i \in 1..MaxBatches :
       /\ upl[i].pc = "none"
       /\ \A j \in 1..(i - 1) : upl[j].pc # "none"
       /\ upl' = [upl EXCEPT ![i] = [IdleUpl EXCEPT !.pc = "process",
                                                    !.files = files, !.idx = 1]]
  /\ UNCHANGED <<started, fs, data, kb, session, ticks, req, result, crashed,
                 sinceClear>>
  /\ UNCHANGED <<cleared, nStored, call, ret>>

\* the upload goroutine after a file: the next file, or the report
nextFile(u) ==
  IF u.idx < Len(u.files)
  THEN [u EXCEPT !.pc = "process", !.idx = u.idx + 1]
  ELSE [u EXCEPT !.pc = "report"]

\* ProcessUserUpload up to the store: the key is made from the clock and
\* the content extracted; an error goes to the errors of the batch
Extract(i) ==
  /\ ~crashed
  /\ upl[i].pc = "process"
  /\ LET extracted(f, c) ==
           IF c.err
           THEN nextFile([upl[i] EXCEPT !.failed = upl[i].failed + 1])
           ELSE [upl[i] EXCEPT !.pc = "store1",
                               !.key = uniqueFilename(Unix, f.name),
                               !.content = c.content,
                               !.stamp = Unix]
         picked(f) == extracted(f, uploadContent(f, f.name))
     IN  upl' = [upl EXCEPT ![i] = picked(upl[i].files[upl[i].idx])]
  /\ UNCHANGED <<started, fs, data, kb, session, ticks, req, result, crashed,
                 sinceClear>>
  /\ UNCHANGED <<cleared, nStored, call, ret>>

\* ProcessUserUpload: kb.userUploads[uniqueFilename] = content
Store1(i) ==
  /\ ~crashed
  /\ upl[i].pc = "store1"
  /\ session' = [session EXCEPT
                   !.userUploads = Put(session.userUploads, upl[i].key,
                                       upl[i].content)]
  /\ upl' = [upl EXCEPT ![i].pc = "store2"]
  /\ sinceClear' = sinceClear \cup {upl[i].key}
  /\ req' = IF req.pc = "uploads"
            THEN [req EXCEPT !.allowed = req.allowed \cup {upl[i].key}]
            ELSE req
  /\ UNCHANGED <<started, fs, data, kb, ticks, result, crashed>>
  /\ UNCHANGED <<cleared, nStored, call, ret>>

\* ProcessUserUpload: kb.uploadPaths[uniqueFilename] = filePath
Store2(i) ==
  /\ ~crashed
  /\ upl[i].pc = "store2"
  /\ session' = [session EXCEPT
                   !.uploadPaths = Put(session.uploadPaths, upl[i].key,
                                       upl[i].files[upl[i].idx].name)]
  /\ upl' = [upl EXCEPT ![i].pc = "store3"]
  /\ UNCHANGED <<started, fs, data, kb, ticks, req, result, crashed, sinceClear>>
  /\ UNCHANGED <<cleared, nStored, call, ret>>

\* ProcessUserUpload: kb.uploadTime[uniqueFilename] = timestamp, and the
\* return to the loop of the goroutine
Store3(i) ==
  /\ ~crashed
  /\ upl[i].pc = "store3"
  /\ session' = [session EXCEPT
                   !.uploadTime = Put(session.uploadTime, upl[i].key,
                                      upl[i].stamp)]
  /\ upl' = [upl EXCEPT ![i] =
               nextFile([upl[i] EXCEPT !.processed = upl[i].processed + 1,
                                       !.key = "", !.content = "", !.stamp = 0])]
  /\ nStored' = nStored + 1
  /\ UNCHANGED <<started, fs, data, kb, ticks, req, result, crashed, sinceClear>>
  /\ UNCHANGED <<cleared, call, ret>>

\* the end of the upload goroutine: the message with GetUploadedFilesList
Report(i) ==
  /\ ~crashed
  /\ upl[i].pc = "report"
  /\ \E order \in Orders(DOMAIN session.uploadTime) :
       upl' = [upl EXCEPT ![i].pc = "done",
                          ![i].listed = GetUploadedFilesList(session, order)]
  /\ UNCHANGED <<started, fs, data, kb, session, ticks, req, result, crashed,
                 sinceClear>>
  /\ UNCHANGED <<cleared, nStored, call, ret>>

\* a write to kb.userUploads while the request goroutine ranges over the
\* same map is a data race: the runtime may stop the process
\* ("concurrent map iteration and map write")
RaceFault(i) ==
  /\ ~crashed
  /\ upl[i].pc = "store1"
  /\ req.pc = "uploads" /\ req.live
  /\ crashed' = TRUE
  /\ UNCHANGED <<started, fs, data, kb, session, ticks, req, result, upl,
                 sinceClear>>
  /\ UNCHANGED <<cleared, nStored, call, ret>>

NextGoroutines ==
  \/ \E inst \in RaceInstallations : Startup(inst)
  \/ Tick
  \/ \E userInput \in RaceQueries : Ask(userInput)
  \/ RangeUpload
  \/ BuildRest
  \/ Decide
  \/ Respond
  \/ \E files \in Batches : SelectFiles(files)
  \/ \E i \in 1..MaxBatches : Extract(i)
  \/ \E i \in 1..MaxBatches : Store1(i)
  \/ \E i \in 1..MaxBatches : Store2(i)
  \/ \E i \in 1..MaxBatches : Store3(i)
  \/ \E i \in 1..MaxBatches : Report(i)
  \/ Clear
  \/ \E i \in 1..MaxBatches : RaceFault(i)

\* the program with the request goroutine, the upload goroutines and the
\* handlers of the UI thread interleaved
SpecGoroutines == Init /\ [][NextGoroutines]_vars


(***************************************************************************)
(* The functions applied on their own.  findMostRelevantSection and       *)
(* IsRelevantContent read nothing but their arguments; the arguments are   *)
(* drawn from the sets below and the application is one step.              *)
(***************************************************************************)

\* contents: paragraphs, sentences, one word, nothing, no keyword at all
SectionContents ==
  { "alpha relay fault.\n\nbeta timeout note.\n\ngamma relay relay.\n\ndelta",
    "one relay. two timeout. three Relay RELAY. four",
    "Relay\n\nspare part\n\nrelay timeout and relay again\n\nend",
    "relay",
    "",
    "xxxxxxxxxxxxxxxxxxxxxxxxxxxxxxxxxxxxxxxxxxxxxxxxxx" }

SectionQueries == {"relay", "Relay Timeout", "is it on", "", "zz relay"}

SectionLengths == {0, 5, 12, 30, 45, 800}

RelevantQueries ==
  { "", "E1001", "relay", "123456789", "1234567890",
    "tell me about lunch", "how to fix the relay", "vacation booking form" }

RelevantContents ==
  { "", "x", "buy milk", "TROUBLESHOOTING guide", "see Troubleshoot page",
    "a solution", "the Procedure", "error", "lunch menu for the week",
    "an error was seen while the unit was starting, twice today" }

\* paths given to ProcessUserUpload: of every kind of extension, one that
\* cannot be read, and some that can
ProcessFiles ==
  { Unreadable("C:/in/gone.txt"), Unreadable("C:/in/gone.html"),
    Unreadable("C:/in/gone.pdf"), Unreadable("C:/in/gone.docx"),
    Unreadable("C:/in/gone.png"), Unreadable("C:/in/gone.dat"),
    Text("C:/in/note.txt", "buy milk"),
    Text("C:/in/dump.dat", "00 ff 00 ff"),
    Pdf("C:/in/blank.pdf", <<Page("short")>>),
    Pdf("C:/in/guide.pdf", <<Page("Cycler setup guide, chapter one")>>),
    Text("C:/in/flow.drawio", "<mxCell value=\"Check power &amp; cables\" />\n"),
    Text("C:/in/legacy.doc", "Legacy report"),
    Text("C:/in/page.html", "<title>Limits</title>\n<p>Follow each step</p>\n"),
    Docx("C:/in/meeting.docx", "Sprint planning\nok\n"),
    Image("C:/in/panel.png", 2048) }

\* a testData tree with files at every depth, and with folders whose names
\* begin with the name of the root
FsNested ==
  Dir("testData",
      <<Text("top.txt", "top"),
        Dir("manuals",
            <<Text("one.txt", "one"),
              Dir("cycler",
                  <<Text("two.txt", "two"),
                    Dir("v2", <<Text("three.txt", "three")>>)>>)>>),
        Dir("testData", <<Text("inner.txt", "inner")>>),
        Dir("testData_old", <<Text("old.txt", "old")>>),
        Dir("archive", <<Dir("testData", <<Text("kept.txt", "kept")>>)>>)>>)

\* what GenerateResponse can meet: no server, a server that answers with an
\* error status, no model installed, the configured one, two others; a
\* generation request that fails, is refused, or is answered with a body
\* that is not JSON, or with an empty, a blank or a proper response
Servers ==
  [get : {0, 200, 503},
   working : {{}, {"gemma3:1b"}, {"phi3:mini", "llama3.2:3b"}},
   post : {0, 200, 500},
   decodes : BOOLEAN,
   response : {"", " \n", "  Check the relay cable.\n"}]

\* prompts: without the line of the issue, with an empty issue, with an
\* issue the built-in responses know and with one they do not
Prompts ==
  { "",
    "You are BeanBot.\n\nUser Issue:   \n\nKnowledge Base:\n",
    "You are BeanBot.\n\nUser Issue: Error E2005 on the sensor\n\nKnowledge Base:\n",
    "You are BeanBot.\n\nUser Issue: the lamp blinks\n\nKnowledge Base:\nGeneral Engineering Knowledge:\n" }

\* the paths loadTextFiles records in kb.filePaths for that tree
FormatPaths ==
  LET recorded(filePaths) == {filePaths[name] : name \in DOMAIN filePaths}
  IN  recorded(loadTextFiles(NewStore, FsNested).filePaths)

\* queries of 10 and of 11 characters, shorter and longer ones, one padded
\* with spaces
IncludeQueries ==
  { "E1001", "1234567890", "12345678901", "  relay ok   ",
    "how to fix the relay", "what about lunch today" }

\* uploads of at most 50 and of more than 50 characters: with a token of a
\* query, with a technical keyword, with neither
IncludeContents ==
  { "buy milk", "Relay K4 stuck", "error 17",
    "The RELAY K4 was replaced on Monday and has been stable ever since",
    "Checklist for the week: step one, order the new fuses and labels",
    "Milk, bread and two dozen eggs for the canteen on the second floor" }

\* inputs in lower, upper and mixed case, and one with no keyword in it
KeywordInputs ==
  {"", "sensor fault", "SENSOR fault", "Power Supply tripped", "all is well"}

\* keyword lists as the structured records hold them
KeywordSets ==
  {<<>>, <<"sensor">>, <<"Sensor", "cable">>, <<"relay", "POWER SUPPLY">>}

\* the loops whose body writes the content of one document
BodyLoops ==
  {"upload", "html", "text", "pdf", "word", "fallbackHtml", "fallbackText"}

\* contents at and just above every budget, and above 1000 characters: in
\* paragraphs with the word of the query, and in one piece without it
BodyContents ==
  LET relays(n) == Rep(Rep("relay ", 10), n)
  IN  { "relay", relays(5), relays(5) \o "x",
        relays(6) \o Rep("abcd", 10), relays(6) \o Rep("abcd", 10) \o "x",
        relays(8) \o Rep("ab", 10), relays(8) \o Rep("ab", 10) \o "x",
        relays(10), relays(10) \o "x",
        relays(13) \o Rep("ab", 10), relays(13) \o Rep("ab", 10) \o "x",
        relays(16) \o Rep("abcd", 10),
        Rep("The relay on channel 7 clicks twice before the cycler starts.\n\n", 17),
        Rep(Rep("x", 77), 13) }

Calls ==
  [fn : {"findMostRelevantSection"}, content : SectionContents,
   userInput : SectionQueries, maxLength : SectionLengths]
  \cup [fn : {"IsRelevantContent"}, userInput : RelevantQueries,
        content : RelevantContents]
  \cup [fn : {"ProcessUserUpload"}, f : ProcessFiles]
  \cup [fn : {"formatHierarchicalPath"}, fullPath : FormatPaths]
  \cup [fn : {"GenerateResponse"}, server : Servers, prompt : Prompts]
  \cup [fn : {"shouldInclude"}, userInput : IncludeQueries,
        content : IncludeContents]
  \cup [fn : {"ContainsAnyKeyword"}, input : KeywordInputs,
        keywords : KeywordSets]
  \cup [fn : {"step"}, loop : BodyLoops, content : BodyContents]

InitFunctions ==
  /\ InitProgram
  /\ call \in Calls
  /\ ret = NoCall

\* findMostRelevantSection: the condition of the branch that returns the
\* beginning of the content
returnsBeginning(content, userInput, maxLength) ==
  bestSection(content, userInput, maxLength) = "" /\ Len(content) > maxLength

FindSection ==
  /\ call.fn = "findMostRelevantSection"
  /\ ret = NoCall
  /\ ret' = [fn |-> call.fn,
             section |-> findMostRelevantSection(call.content, call.userInput,
                                                 call.maxLength),
             beginning |-> returnsBeginning(call.content, call.userInput,
                                            call.maxLength)]
  /\ UNCHANGED <<started, fs, data, kb, session, ticks, req, result, upl,
                 crashed, sinceClear, cleared, nStored, call>>

Relevant ==
  /\ call.fn = "IsRelevantContent"
  /\ ret = NoCall
  /\ ret' = [fn |-> call.fn,
             relevant |-> IsRelevantContent(call.userInput, call.content)]
  /\ UNCHANGED <<started, fs, data, kb, session, ticks, req, result, upl,
                 crashed, sinceClear, cleared, nStored, call>>

\* ProcessUserUpload(call.f.name) on the session after construction
Process ==
  /\ call.fn = "ProcessUserUpload"
  /\ ret = NoCall
  /\ LET returns(r) ==
           ret' = [fn |-> call.fn, err |-> r.err, session |-> r.session]
     IN  returns(ProcessUserUpload(NewSession, Unix, call.f))
  /\ UNCHANGED <<started, fs, data, kb, session, ticks, req, result, upl,
                 crashed, sinceClear, cleared, nStored, call>>

\* the two formatters applied to a path of kb.filePaths and, for the
\* second, the key it is recorded under
Format ==
  /\ call.fn = "formatHierarchicalPath"
  /\ ret = NoCall
  /\ ret' = [fn |-> call.fn,
             path |-> formatHierarchicalPath(call.fullPath),
             reference |-> formatHierarchicalReference(call.fullPath,
                                                       Base(call.fullPath))]
  /\ UNCHANGED <<started, fs, data, kb, session, ticks, req, result, upl,
                 crashed, sinceClear, cleared, nStored, call>>

\* GenerateResponse(call.prompt) of the client main constructs, against
\* call.server
Generate ==
  /\ call.fn = "GenerateResponse"
  /\ ret = NoCall
  /\ LET returns(r) ==
           ret' = [fn |-> call.fn, response |-> r.response, err |-> r.err,
                   model |-> r.model]
     IN  returns(GenerateResponse(NewClient, call.server, call.prompt))
  /\ UNCHANGED <<started, fs, data, kb, session, ticks, req, result, upl,
                 crashed, sinceClear, cleared, nStored, call>>

\* shouldInclude as the loop over the uploads computes it for one upload,
\* lowerInput being strings.ToLower(userInput)
Include ==
  /\ call.fn = "shouldInclude"
  /\ ret = NoCall
  /\ ret' = [fn |-> call.fn,
             included |-> shouldInclude(ToLower(call.userInput), call.content)]
  /\ UNCHANGED <<started, fs, data, kb, session, ticks, req, result, upl,
                 crashed, sinceClear, cleared, nStored, call>>

Keyword ==
  /\ call.fn = "ContainsAnyKeyword"
  /\ ret = NoCall
  /\ ret' = [fn |-> call.fn,
             found |-> ContainsAnyKeyword(call.input, call.keywords)]
  /\ UNCHANGED <<started, fs, data, kb, session, ticks, req, result, upl,
                 crashed, sinceClear, cleared, nStored, call>>

\* the body of one loop of buildEngineeringContext for the query "relay" and
\* a store or session that holds call.content alone: what it writes
Body ==
  /\ call.fn = "step"
  /\ ret = NoCall
  /\ LET kind == CASE call.loop = "pdf" -> "pdfContents"
                   [] call.loop = "word" -> "wordContents"
                   [] OTHER -> "textFiles"
         name == CASE call.loop = "upload" -> "upload_1700000000_doc.txt"
                   [] call.loop \in {"html", "fallbackHtml"} -> "doc.html"
                   [] call.loop = "pdf" -> "doc.pdf"
                   [] call.loop = "word" -> "doc.docx"
                   [] OTHER -> "doc.txt"
         ctx == [NewContext EXCEPT
                   !.fallback = call.loop \in {"fallbackHtml", "fallbackText"}]
         written(c) == ret' = [fn |-> call.fn, text |-> c.text, sources |-> c.sources]
     IN  written(step(ctx, call.loop, name, "relay",
                      storeDoc(NewStore, kind, name, call.content,
                               "testData/" \o name),
                      Put(EmptyMap, name, call.content)))
  /\ UNCHANGED <<started, fs, data, kb, session, ticks, req, result, upl,
                 crashed, sinceClear, cleared, nStored, call>>

NextFunctions ==
  \/ FindSection
  \/ Relevant
  \/ Process
  \/ Format
  \/ Generate
  \/ Include
  \/ Keyword
  \/ Body

SpecFunctions == InitFunctions /\ [][NextFunctions]_vars

(***************************************************************************)
(* The properties                                                          *)
(***************************************************************************)

\* C1: the text buildEngineeringContext returns is at most 1500 characters
\* long, on the technical path, on the general path and when it was cut
C1_TextAtMost1500 ==
  req.pc = "built" => Len(result.text) <= 1500

\* C2: in the sources buildEngineeringContext returns, every citation of a
\* user upload comes before every citation of any other kind
C2_UploadCitationsFirst ==
  req.pc = "built" =>
    \A i, j \in 1..Len(result.sources) :
      (i < j /\ HasPrefix(result.sources[j], "User Upload: "))
        => HasPrefix(result.sources[i], "User Upload: ")

\* a result that cites an upload and then a document of the corpus
C2_UploadThenOther ==
  /\ req.pc = "built"
  /\ Len(result.sources) >= 2
  /\ HasPrefix(result.sources[1], "User Upload: ")
  /\ ~HasPrefix(result.sources[Len(result.sources)], "User Upload: ")

\* C3: with testData holding one .txt file whose content is
\* "error E1001 communication timeout", the query "E1001" returns a text
\* that includes the content and sources that contain the file's name
C3_RoundTrip ==
  (req.pc = "built" /\ fs = FsRoundTrip /\ req.query = "E1001") =>
    /\ Contains(result.text, RoundTripText)
    /\ \E i \in 1..Len(result.sources) : Contains(result.sources[i], "e1001.txt")

\* C4: with the error codes E1001 and E2005, a query that contains "e1001"
\* in any case puts the numbered steps of E1001 into the context and not
\* the steps of E2005
C4_OnlyE1001Steps ==
  (req.pc = "built" /\ data = LsieData /\ Contains(ToLower(req.query), "e1001")) =>
    /\ Contains(result.text, numbered(LsieData.ErrorCodes[1].TroubleshootingSteps))
    /\ ~Contains(result.text, numbered(LsieData.ErrorCodes[2].TroubleshootingSteps))

\* C5: once ClearUserUploads has run after the uploads, GetUploadedFilesList
\* is empty until the next upload, and a context built afterwards cites and
\* quotes only uploads stored since the clear
C5_ClearedUploadsGone ==
  /\ sinceClear = {} =>
       \A order \in Orders(DOMAIN session.uploadTime) :
         GetUploadedFilesList(session, order) = <<>>
  /\ req.pc = "built" =>
       /\ \A i \in 1..Len(result.sources) :
            HasPrefix(result.sources[i], "User Upload: ") =>
              \E k \in req.allowed :
                result.sources[i] = "User Upload: " \o displayName(k)
       /\ \A f \in UploadFiles :
            Contains(result.text, "From User Upload (" \o Base(f.name) \o ")") =>
              \E k \in req.allowed : displayName(k) = Base(f.name)

\* a context built after a clear that removed uploads, for a query short
\* enough to include every upload, with nothing uploaded since
C5_BuiltAfterClear ==
  /\ req.pc = "built"
  /\ cleared
  /\ req.allowed = {}
  /\ req.query = "E1001"
  /\ session.userUploads = EmptyMap

\* C6: a .pdf whose text cannot be extracted is stored under its name with
\* a content that starts with "Failed to extract text", and every file the
\* walk comes to after it, in the same directory or another one, is stored
\* as it is when loaded on its own
C6_SentinelAndWalkGoesOn ==
  started =>
    LET RECURSIVE walk(_, _)
        walk(dirPath, entries) ==
          IF entries = <<>> THEN <<>>
          ELSE (IF Head(entries).isDir
                THEN IF Head(entries).readable
                     THEN walk(dirPath \o "/" \o Head(entries).name,
                               Head(entries).kids)
                     ELSE <<>>
                ELSE <<[f |-> Head(entries),
                        path |-> dirPath \o "/" \o Head(entries).name]>>)
                 \o walk(dirPath, Tail(entries))
        alone(file) == loadFile(NewStore, file.f, file.path).stored
        after(files, i, j) ==
          \A i2 \in (i + 1)..Len(files) :
            alone(files[i2]) # <<>> =>
              \E j2 \in (j + 1)..Len(kb.stored) :
                kb.stored[j2] = alone(files[i2])[1]
        sentinel(files, i) ==
          \E j \in 1..Len(kb.stored) :
            /\ kb.stored[j].kind = "pdfContents"
            /\ kb.stored[j].name = files[i].f.name
            /\ kb.stored[j].path = files[i].path
            /\ HasPrefix(kb.stored[j].content, "Failed to extract text")
            /\ after(files, i, j)
        all(files) ==
          \A i \in 1..Len(files) :
            (/\ HasSuffix(ToLower(files[i].f.name), ".pdf")
             /\ extractPDFText(files[i].f) = "")
              => sentinel(files, i)
    IN  all(walk(fs.name, fs.kids))

\* the walk of a tree with two PDFs that cannot be extracted has stored
\* the first under its name and gone on to a subdirectory and a sibling
C6_BrokenPdfWalked ==
  /\ started
  /\ fs = FsBrokenPdf
  /\ HasPrefix(Get(kb.pdfContents, "broken.pdf"), "Failed to extract text")
  /\ "guide.pdf" \in DOMAIN kb.pdfContents
  /\ "zones.txt" \in DOMAIN kb.textFiles

\* C7: no write to the session maps (ProcessUserUpload, ClearUserUploads)
\* happens while buildEngineeringContext is in its range over the uploads
C7_MutualExclusion ==
  [][session' # session => req.pc # "uploads"]_vars

\* C8: buildEngineeringContext never returns an empty text
C8_TextNeverEmpty ==
  req.pc = "built" => result.text # ""

\* a technical query over an empty corpus without uploads: the text is the
\* header of the general reference
C8_FallbackOnEmptyCorpus ==
  /\ req.pc = "built"
  /\ fs = FsEmpty
  /\ session.userUploads = EmptyMap
  /\ isTechnicalQuestion(ToLower(req.query))
  /\ result.text = "General Engineering Knowledge:\n\n\n"

\* C9: findMostRelevantSection returns at most maxLength characters unless
\* it returns the beginning of the content, which it does only when the
\* content is longer than maxLength and no section of at most maxLength
\* characters scored above 0
C9_SectionWithinMaxLength ==
  ret.fn = "findMostRelevantSection" =>
    LET unscored(paragraphs, keywords) ==
          \A i \in 0..(Len(paragraphs) - 1) :
            LET short(section) ==
                  Len(section) <= call.maxLength
                    => sectionScore(ToLower(section), keywords) = 0
            IN  short(sectionAt(paragraphs, i,
                                IF i + 3 > Len(paragraphs) THEN Len(paragraphs)
                                ELSE i + 3))
    IN  /\ ~ret.beginning => Len(ret.section) <= call.maxLength
        /\ ret.beginning =>
             /\ Len(call.content) > call.maxLength
             /\ ret.section = Upto(call.content, call.maxLength)
             /\ unscored(splitParagraphs(call.content),
                         Fields(ToLower(call.userInput)))

\* a section that scored is returned from a content longer than maxLength
C9_ScoredSectionReturned ==
  /\ ret.fn = "findMostRelevantSection"
  /\ ~ret.beginning
  /\ ret.section # ""
  /\ Len(call.content) > call.maxLength

\* C10: IsRelevantContent returns true when the query is shorter than 10
\* characters and the content is not empty, and when the content contains
\* "troubleshoot" in any case
C10_UnconditionalTriggers ==
  ret.fn = "IsRelevantContent" =>
    ((\/ Len(call.userInput) < 10 /\ call.content # ""
      \/ Contains(ToLower(call.content), "troubleshoot"))
       => ret.relevant)

\* a query of 9 characters that shares nothing with the content
C10_ShortQueryRelevant ==
  /\ ret.fn = "IsRelevantContent"
  /\ call.userInput = "123456789"
  /\ call.content = "x"
  /\ ret.relevant

\* C11: ProcessUserUpload on a path that cannot be read returns an error
\* and stores nothing, whatever the extension of the file
C11_UnreadableUploadFails ==
  (ret.fn = "ProcessUserUpload" /\ ~call.f.readable) =>
    (ret.err /\ ret.session = NewSession)

\* C12: every name in kb.textFiles, kb.pdfContents, kb.wordContents or
\* kb.imageContents is also in kb.filePaths
C12_ContentHasPath ==
  (DOMAIN kb.textFiles \cup DOMAIN kb.pdfContents \cup DOMAIN kb.wordContents
     \cup DOMAIN kb.imageContents) \subseteq DOMAIN kb.filePaths

\* the store loaded from a tree with text, Word and image documents in
\* the root and in subdirectories
C12_DocsLoaded ==
  /\ started
  /\ fs = FsDocs
  /\ {"index.html", "flow.drawio", "zones.txt"} \subseteq DOMAIN kb.textFiles
  /\ {"legacy.doc", "meeting.docx", "old.docx"} \subseteq DOMAIN kb.wordContents
  /\ "panel.png" \in DOMAIN kb.imageContents

\* C13: after n calls of ProcessUserUpload that returned nil since the last
\* clear, the session holds n entries and GetUploadedFilesList n items
C13_OneEntryPerUpload ==
  /\ Cardinality(DOMAIN session.userUploads) = nStored
  /\ \A order \in Orders(DOMAIN session.uploadTime) :
       Len(GetUploadedFilesList(session, order)) = nStored

\* C14: formatHierarchicalPath and formatHierarchicalReference return the
\* same citation for every path that loadTextFiles records
C14_FormattersAgree ==
  ret.fn = "formatHierarchicalPath" => ret.path = ret.reference

\* C18: after loadTextFiles every file of the tree with a recognized
\* extension has a content under its name and its full path in kb.filePaths
C18_EveryRecognizedFileStored ==
  started =>
    LET RECURSIVE tree(_, _)
        tree(dirPath, entries) ==
          IF entries = <<>> THEN {}
          ELSE (IF Head(entries).isDir
                THEN tree(dirPath \o "/" \o Head(entries).name,
                          Head(entries).kids)
                ELSE {[name |-> Head(entries).name,
                       path |-> dirPath \o "/" \o Head(entries).name]})
                 \cup tree(dirPath, Tail(entries))
        recognized(lowerName) ==
          \/ HasSuffix(lowerName, ".txt") \/ HasSuffix(lowerName, ".drawio")
          \/ HasSuffix(lowerName, ".html") \/ HasSuffix(lowerName, ".pdf")
          \/ HasSuffix(lowerName, ".docx") \/ HasSuffix(lowerName, ".doc")
          \/ isImageName(lowerName)
    IN  \A file \in tree(fs.name, fs.kids) :
          recognized(ToLower(file.name)) =>
            /\ file.name \in DOMAIN kb.textFiles \cup DOMAIN kb.pdfContents
                   \cup DOMAIN kb.wordContents \cup DOMAIN kb.imageContents
            /\ Get(kb.filePaths, file.name) = file.path

\* C15: the call of buildEngineeringContext leaves the corpus content maps,
\* the path index, the structured records and the upload session as they
\* were: every step that ends with a built context changes none of them
C15_AssembleReadOnly ==
  [][(req.pc # "built" /\ req'.pc = "built")
       => (kb' = kb /\ data' = data /\ session' = session)]_vars

\* a context has been built from a loaded corpus and a non-empty session,
\* and it cites both
C15_BuiltFromCorpusAndUploads ==
  /\ req.pc = "built"
  /\ session.userUploads # EmptyMap
  /\ kb.filePaths # EmptyMap
  /\ \E i, j \in 1..Len(result.tiers) :
       result.tiers[i] = "upload" /\ result.tiers[j] # "upload"

\* C16: GenerateResponse returns a non-empty response and a nil error; when
\* the server cannot be reached, no model works, the request fails or is
\* answered with another status than 200, or the body cannot be decoded or
\* holds a blank response, the response is the built-in one
C16_ResponseAndNoError ==
  ret.fn = "GenerateResponse" =>
    /\ ret.response # ""
    /\ ~ret.err
    /\ ( \/ call.server.get # 200
         \/ call.server.working \cap
              ({NewClient.model} \cup {knownModels[i] : i \in 1..Len(knownModels)}) = {}
         \/ call.server.post # 200
         \/ ~call.server.decodes
         \/ TrimSpace(call.server.response) = "" )
       => HasSuffix(ret.response, offlineSignature)

\* the server could not be reached and the prompt named no issue: the
\* built-in response was returned
C16_OfflineWithoutIssue ==
  /\ ret.fn = "GenerateResponse"
  /\ call.server.get = 0
  /\ call.prompt = ""
  /\ HasSuffix(ret.response, offlineSignature)

\* C17: on the technical path the contributions come in the order of their
\* tiers, in the source list and in the text: uploads, HTML documents,
\* error entries, common issues, other text documents, PDF documents, Word
\* documents, images.  No citation of a tier follows one of a later tier,
\* and of two headers present in the text the one of the earlier tier comes
\* first; the fallback contributes only when no tier did
C17_TierOrder ==
  LET rank(tier) ==
        CASE tier = "upload" -> 0 [] tier = "html" -> 1 [] tier = "error" -> 2
          [] tier = "issue" -> 3 [] tier = "text" -> 4 [] tier = "pdf" -> 5
          [] tier = "word" -> 6 [] tier = "image" -> 7 [] OTHER -> 8
      header(tier, source) ==
        CASE tier = "upload" ->
               "From User Upload (" \o TrimPrefix(source, "User Upload: ") \o "):\n"
          [] tier = "html" ->
               "From Engineering Documentation ("
                 \o TrimPrefix(source, "Engineering Documentation: ") \o "):\n"
          [] tier = "error" ->
               "Error Code " \o TrimPrefix(source, "Error Code: ") \o ": "
          [] tier = "issue" -> source \o "\n"
          [] tier = "text" -> "From " \o source \o ":\n"
          [] tier = "pdf" -> "From " \o TrimPrefix(source, "PDF: ") \o ":\n"
          [] tier = "word" ->
               "From Word Document (" \o TrimPrefix(source, "Word Document: ")
                 \o "):\n"
          [] tier = "image" ->
               "From Image (" \o TrimPrefix(source, "Image: ") \o "):\n"
          [] OTHER -> ""
      before(earlier, later) ==
        Contains(result.text, later)
          => (Contains(result.text, earlier)
              /\ Index(result.text, earlier) < Index(result.text, later))
  IN  (req.pc = "built" /\ isTechnicalQuestion(ToLower(req.query))) =>
        /\ \A i, j \in 1..Len(result.tiers) :
             i < j => /\ rank(result.tiers[i]) <= rank(result.tiers[j])
                      /\ rank(result.tiers[i]) < rank(result.tiers[j])
                           /\ rank(result.tiers[j]) < 8
                           => before(header(result.tiers[i], result.sources[i]),
                                     header(result.tiers[j], result.sources[j]))
        /\ (\E i \in 1..Len(result.tiers) : rank(result.tiers[i]) = 8)
             => \A i \in 1..Len(result.tiers) : rank(result.tiers[i]) = 8

\* a technical context with contributions of three tiers at least, an
\* upload among them
C17_ThreeTiers ==
  /\ req.pc = "built"
  /\ isTechnicalQuestion(ToLower(req.query))
  /\ \E i, j, k \in 1..Len(result.tiers) :
       /\ result.tiers[i] = "upload"
       /\ result.tiers[j] \in {"html", "error", "issue"}
       /\ result.tiers[k] \in {"text", "pdf", "word", "image"}

\* C19: for a query that is not technical and for which no text document
\* holds two tokens of the query longer than 3 characters,
\* buildEngineeringContext returns the outside-expertise message and no
\* source, whatever the upload session holds
C19_OutsideExpertise ==
  ( /\ req.pc = "built"
    /\ ~isTechnicalQuestion(ToLower(req.query))
    /\ \A f \in DOMAIN kb.textFiles :
         wordMatches(ToLower(req.query), ToLower(kb.textFiles[f]), 3) < 2 )
  => /\ result.text = outsideExpertise(req.query)
     /\ result.sources = <<>>

\* C20: an upload is included exactly when the query (lower-cased, without
\* the spaces around it) has at most 10 characters, or a token of the query
\* longer than 2 characters occurs in the lower-cased content, or the
\* lower-cased content holds a technical keyword; the length of the
\* content plays no role
C20_IncludedExactlyWhen ==
  ret.fn = "shouldInclude" =>
    ( ret.included <=>
        \/ Len(TrimSpace(ToLower(call.userInput))) <= 10
        \/ \E w \in {Fields(ToLower(call.userInput))[i] :
                       i \in 1..Len(Fields(ToLower(call.userInput)))} :
             Len(w) > 2 /\ Contains(ToLower(call.content), w)
        \/ \E k \in {"error", "problem", "issue", "step", "solution",
                     "configure", "install", "troubleshoot"} :
             Contains(ToLower(call.content), k) )

\* C21: a Word document whose stored content is a failure sentinel (the
\* document could not be read, nothing was extracted from it, or it is a
\* .doc file) contributes neither a header nor a citation to a built context
C21_NoSentinelWordDocument ==
  LET sentinel(content) ==
        \/ HasPrefix(content, "Error reading Word document ")
        \/ HasSuffix(content, " processed but no readable text content found")
        \/ HasPrefix(content, "Failed to extract text from Word document - ")
        \/ Contains(content, "not supported")
      absent(path) ==
        /\ \A i \in 1..Len(result.sources) :
             result.sources[i] # "Word Document: " \o path
        /\ ~Contains(result.text, "From Word Document (" \o path \o "):\n")
  IN  req.pc = "built" =>
        \A f \in DOMAIN kb.wordContents :
          sentinel(kb.wordContents[f]) => absent(formattedPath(kb, f))

\* C22: ProcessUserUpload classifies a file as loadTextFiles does: for a
\* file with an extension loadTextFiles recognizes, the content stored for
\* the upload is the content loadTextFiles stores for the same file (but
\* for the wording of the sentinel of a failed extraction), the diagram
\* text for .drawio and the not-supported sentinel for .doc
C22_SameClassification ==
  LET entryOf(f) == [f EXCEPT !.name = Base(f.name)]
      values(m) == {m[k] : k \in DOMAIN m}
      ingested(store) ==
        values(store.textFiles) \cup values(store.pdfContents)
          \cup values(store.wordContents) \cup values(store.imageContents)
      same(uploaded, stored) ==
        \A c \in stored :
          ~HasPrefix(c, "Failed to ") => uploaded = {c}
  IN  (ret.fn = "ProcessUserUpload" /\ ~ret.err) =>
        same(values(ret.session.userUploads),
             ingested(loadFile(NewStore, entryOf(call.f), call.f.name)))

\* C23: every citation of a document of the corpus is, after the label of
\* its tier, "<folder>/<filename>" with the folder the document lies in,
\* and the filename alone for a document directly under testData; in every
\* tier, the one of the HTML documents included
C23_ParentFolderCitation ==
  LET expected(filename, parts) ==
        IF Len(parts) <= 2 THEN filename
        ELSE parts[Len(parts) - 1] \o "/" \o filename
      citations ==
        {expected(f, Split(kb.filePaths[f], "/")) : f \in DOMAIN kb.filePaths}
      labels ==
        <<"Engineering Documentation (General): ", "Engineering Documentation: ",
          "General Reference: ", "PDF: ", "Word Document: ", "Image: ">>
      RECURSIVE unlabelled(_, _)
      unlabelled(source, i) ==
        IF i > Len(labels) THEN source
        ELSE IF HasPrefix(source, labels[i]) THEN TrimPrefix(source, labels[i])
        ELSE unlabelled(source, i + 1)
      ofDocument(i) ==
        result.tiers[i] \in {"general", "html", "text", "pdf", "word", "image"}
          \/ (result.tiers[i] = "fallback"
              /\ ~HasPrefix(result.sources[i], "Error Code Reference: "))
  IN  req.pc = "built" =>
        \A i \in 1..Len(result.sources) :
          ofDocument(i) => unlabelled(result.sources[i], 1) \in citations

\* C24: ContainsAnyKeyword(input, keywords) is true exactly when some
\* keyword is a substring of the input once both are lower-cased
C24_CaseInsensitive ==
  ret.fn = "ContainsAnyKeyword" =>
    ( ret.found <=>
        \E i \in 1..Len(call.keywords) :
          Contains(ToLower(call.input), ToLower(call.keywords[i])) )

\* C25: when no section of at most maxLength characters has a score above
\* 0, findMostRelevantSection returns the leading maxLength characters of
\* the content (the whole content when it is shorter), which is not empty
\* for a content that is not; when some section qualifies it returns one
\* of the highest score and, among those, the earliest
C25_BestOrLeading ==
  LET chosen(paragraphs, keywords) ==
        LET n == Len(paragraphs)
            window(i) == sectionAt(paragraphs, i, IF i + 3 > n THEN n ELSE i + 3)
            score(i) == sectionScore(ToLower(window(i)), keywords)
            qualifying ==
              {i \in 0..(n - 1) :
                 Len(window(i)) <= call.maxLength /\ score(i) > 0}
            leading ==
              Upto(call.content,
                   IF Len(call.content) < call.maxLength THEN Len(call.content)
                   ELSE call.maxLength)
        IN  IF qualifying = {}
            THEN /\ ret.section = leading
                 /\ (call.content # "" /\ call.maxLength > 0) => ret.section # ""
            ELSE \E i \in qualifying :
                   /\ ret.section = window(i)
                   /\ \A j \in qualifying :
                        score(j) < score(i) \/ (score(j) = score(i) /\ i <= j)
  IN  ret.fn = "findMostRelevantSection" =>
        chosen(splitParagraphs(call.content), Fields(ToLower(call.userInput)))

\* C26: the body one document contributes is never longer than the budget
\* of its tier plus the ellipsis and the blank line that close it: 800
\* characters for an upload, 500 for an HTML document, 400 for a text
\* document, 800 for a PDF or Word document of more than 1000 characters
\* and 600 for a shorter one, 300 for a document of the fallback
C26_BodyWithinBudget ==
  LET budget ==
        CASE call.loop = "upload" -> 800
          [] call.loop = "html" -> 500
          [] call.loop = "text" -> 400
          [] call.loop \in {"pdf", "word"} ->
               IF Len(call.content) > 1000 THEN 800 ELSE 600
          [] OTHER -> 300
      body(text) == From(text, Index(text, "\n") + 1)
  IN  ret.fn = "step" =>
        /\ Len(ret.sources) = 1
        /\ Len(body(ret.text)) <= budget + Len("...") + Len("\n\n")
        /\ Len(call.content) <= budget => body(ret.text) = call.content \o "\n\n"

\* a PDF of more than 1000 characters contributed a section of its text,
\* shorter than the text, closed by the ellipsis
C26_SectionOfLargePdf ==
  /\ ret.fn = "step"
  /\ call.loop = "pdf"
  /\ Len(call.content) > 1000
  /\ Len(ret.text) < Len(call.content)
  /\ HasSuffix(ret.text, "starts....\n\n")

\* C27: when buildEngineeringContext has returned the outside-expertise
\* message, the request goroutine takes it for a direct response and shows
\* it: it does not go on to call GenerateResponse
C27_DirectResponse ==
  (req.pc \in {"direct", "generate"}
     /\ result.text = outsideExpertise(req.query))
  => req.pc = "direct"

\* C28: for every citation of the source list the header line of its
\* contribution is in the returned text, also when the text was cut at 1500
\* characters
C28_CitedHeaderPresent ==
  LET header(tier, source) ==
        CASE tier = "upload" ->
               "From User Upload (" \o TrimPrefix(source, "User Upload: ") \o "):\n"
          [] tier = "html" ->
               "From Engineering Documentation ("
                 \o TrimPrefix(source, "Engineering Documentation: ") \o "):\n"
          [] tier = "error" ->
               "Error Code " \o TrimPrefix(source, "Error Code: ") \o ": "
          [] tier = "issue" -> source \o "\n"
          [] tier \in {"text", "general"} -> "From " \o source \o ":\n"
          [] tier = "pdf" -> "From " \o TrimPrefix(source, "PDF: ") \o ":\n"
          [] tier = "word" ->
               "From Word Document (" \o TrimPrefix(source, "Word Document: ")
                 \o "):\n"
          [] tier = "image" ->
               "From Image (" \o TrimPrefix(source, "Image: ") \o "):\n"
          [] HasPrefix(source, "Engineering Documentation (General): ") ->
               "From Engineering Documentation ("
                 \o TrimPrefix(source, "Engineering Documentation (General): ")
                 \o "):\n"
          [] HasPrefix(source, "Error Code Reference: ") ->
               "Error Code " \o TrimPrefix(source, "Error Code Reference: ") \o ": "
          [] OTHER -> "From " \o TrimPrefix(source, "General Reference: ") \o ":\n"
  IN  req.pc = "built" =>
        \A i \in 1..Len(result.sources) :
          Contains(result.text, header(result.tiers[i], result.sources[i]))

\* C29: buildEngineeringContext is deterministic: on the corpus, the
\* records and the upload session a context was built from, another call
\* with the same query returns the same text and the same sources in the
\* same order
C29_Deterministic ==
  req.pc = "built" =>
    \A again \in buildEngineeringContext(req.query, kb, data, session.userUploads) :
      again.text = result.text /\ again.sources = result.sources

\* C30: once the Clear button has called ClearUserUploads, an upload
\* goroutine that was in its loop over the files when the button was pressed
\* adds no entry to the uploads: no step of such a goroutine puts a key into
\* kb.userUploads.
C30_NoEntryAfterClear ==
  [][\A i \in 1..MaxBatches :
       (upl[i].interrupted /\ upl'[i] # upl[i]) =>
         DOMAIN session'.userUploads \subseteq DOMAIN session.userUploads]_vars

====
